---- MODULE Spec2Model ----
(***************************************************************************)
(* EduSystem: a Django / Django-REST-framework student information system. *)
(* The state is the relational database (one variable per table that the   *)
(* verified properties read), the calendar day, and the record of the last *)
(* request served.  Every action is one operation of the program: a view   *)
(* handler of app/views.py (preceded by the permission check that          *)
(* APIView.initial performs), a serializer method of app/serializers.py,   *)
(* a model save by the object-relational layer (with the post_save hooks   *)
(* of app/models.py and app/signals.py it fires), or one URL resolution    *)
(* over the pattern list of app/urls.py.                                   *)
(*                                                                         *)
(* The views are modelled as the callables the framework dispatches to;    *)
(* which path reaches which view is the resolver's matter and is modelled  *)
(* separately by resolve.                                                  *)
(***************************************************************************)
EXTENDS Integers, Sequences, FiniteSets, TLC

VARIABLES users, profiles, students, staff, courses, enrollments,
          attendance, admissions, notifications, exams, grades, fees,
          programs, departments,
          today, last

vars == <<users, profiles, students, staff, courses, enrollments,
          attendance, admissions, notifications, exams, grades, fees,
          programs, departments,
          today, last>>

(***************************************************************************)
(* Bounds of the model.                                                    *)
(***************************************************************************)
MaxUsers == 2

UserIds == 1..MaxUsers

\* request.user of an unauthenticated request (AnonymousUser)
Anonymous == 0

NoRow == 0

Requesters == UserIds \cup {Anonymous}

(***************************************************************************)
(* 0. Users and profiles (models.py)                                       *)
(***************************************************************************)
ROLE_CHOICES == {"Admin", "Staff", "Student"}

\* the role both create_user_profile and UserCreateSerializer.create derive
RoleOf(u) ==
    IF u.is_superuser THEN "Admin"
    ELSE IF u.is_staff THEN "Staff"
    ELSE "Student"

\* smallest primary key not used by a table (set of rows with an id field)
NewId(table) ==
    CHOOSE i \in 1..(Cardinality(table) + 1) :
        /\ \A r \in table : r.id # i
        /\ \A j \in 1..(i - 1) : \E r \in table : r.id = j

\* OneToOneField(User): at most one profile per user
ProfileUserUnique(P, uid) == \A p \in P : p.user # uid

\* the outcome of a write: the table after it, and ok = FALSE when the
\* database raised IntegrityError and left the table as it was
Stored(table) == [ok |-> TRUE, table |-> table]

Rejected(table) == [ok |-> FALSE, table |-> table]

\* UserProfile.objects.create(user=..., role=...)
UserProfileCreate(P, uid, role) ==
    IF ProfileUserUnique(P, uid)
    THEN Stored(P \cup {[id |-> NewId(P), user |-> uid, role |-> role]})
    ELSE Rejected(P)

\* a slip: a receiver that brings the role up to date on every save
create_user_profile_sync(P, uid, u, created) ==
    IF created THEN UserProfileCreate(P, uid, RoleOf(u))
    ELSE Stored({IF p.user = uid THEN [p EXCEPT !.role = RoleOf(u)] ELSE p : p \in P})

\* post_save receiver of User
create_user_profile(P, uid, u, created) ==
    IF created THEN UserProfileCreate(P, uid, RoleOf(u)) ELSE Stored(P)

WithUser(U, uid, u) ==
    [x \in (DOMAIN U) \cup {uid} |-> IF x = uid THEN u ELSE U[x]]

\* request.user.is_authenticated
IsAuthenticated(req) == req # Anonymous /\ req \in DOMAIN users

\* request.user.profile: the related profile row (the reverse one-to-one
\* accessor raises when there is none)
HasProfile(req) == \E p \in profiles : p.user = req

ProfileRole(req) == (CHOOSE p \in profiles : p.user = req).role

(***************************************************************************)
(* 1. Views and their permission declarations (views.py, settings.py)      *)
(***************************************************************************)
ViewSets ==
    <<"DepartmentViewSet", "DesignationViewSet", "ProgramViewSet",
      "CourseViewSet", "StudentViewSet", "StaffViewSet", "AdmissionViewSet",
      "EnrollmentViewSet", "AttendanceViewSet", "ExamViewSet",
      "GradeViewSet", "FeeViewSet", "NotificationViewSet">>

BulkViews == {"StudentBulkAPIView", "CourseBulkAPIView"}

Views ==
    {ViewSets[i] : i \in 1..Len(ViewSets)} \cup BulkViews
        \cup {"DashboardAPIView"}

\* REST_FRAMEWORK["DEFAULT_PERMISSION_CLASSES"]
DEFAULT_PERMISSION_CLASSES == <<"IsAuthenticated">>

\* the views that set permission_classes themselves; the others inherit
\* the default of settings.py
permission_classes(view) ==
    IF view \in BulkViews
    THEN DEFAULT_PERMISSION_CLASSES
    ELSE <<"IsAuthenticated", "RoleBasedPermission">>

\* whether the view class has an allowed_roles attribute
HasAllowedRoles(view) == view \notin BulkViews

\* the allowed_roles attribute where a view declares one
DeclaredRoles(view) ==
    CASE view \in {"DesignationViewSet", "StaffViewSet"} -> {"Admin"}
      [] view \in {"StudentViewSet", "EnrollmentViewSet", "GradeViewSet",
                   "FeeViewSet", "NotificationViewSet"}
             -> {"Admin", "Staff", "Student"}
      [] OTHER -> {"Admin", "Staff"}

\* getattr(view, 'allowed_roles', [])
allowed_roles(view) ==
    IF HasAllowedRoles(view) THEN DeclaredRoles(view) ELSE {}

\* a plausible slip: superusers and staff pass as in IsAdmin / IsStaff
has_permission_flags(req, view) ==
    IF ~IsAuthenticated(req) THEN "deny"
    ELSE IF users[req].is_superuser \/ users[req].is_staff THEN "grant"
    ELSE IF ~HasProfile(req) THEN "raise"
    ELSE IF ProfileRole(req) \in allowed_roles(view) THEN "grant"
    ELSE "deny"

\* RoleBasedPermission.has_permission
has_permission(req, view) ==
    IF ~IsAuthenticated(req) THEN "deny"
    ELSE IF ~HasProfile(req) THEN "raise"
    ELSE IF ProfileRole(req) \in allowed_roles(view) THEN "grant"
    ELSE "deny"

\* one permission class applied to a request
PermissionResult(cls, req, view) ==
    IF cls = "IsAuthenticated"
    THEN (IF IsAuthenticated(req) THEN "grant" ELSE "deny")
    ELSE has_permission(req, view)

\* APIView.check_permissions: the classes in order, the first that does not
\* grant decides
RECURSIVE CheckFrom(_, _, _, _)
CheckFrom(classes, i, req, view) ==
    IF i > Len(classes) THEN "grant"
    ELSE LET r == PermissionResult(classes[i], req, view)
         IN  IF r = "grant" THEN CheckFrom(classes, i + 1, req, view) ELSE r

check_permissions(req, view) == CheckFrom(permission_classes(view), 1, req, view)

(***************************************************************************)
(* Initial state: an empty database.                                       *)
(***************************************************************************)
EmptyDb ==
    /\ users = << >>
    /\ profiles = {}
    /\ students = {}
    /\ staff = {}
    /\ courses = {}
    /\ enrollments = {}
    /\ attendance = {}
    /\ admissions = {}
    /\ notifications = {}
    /\ exams = {}
    /\ grades = {}
    /\ fees = {}
    /\ programs = {}
    /\ departments = {}

Init ==
    /\ EmptyDb
    /\ today = 1
    /\ last = [op |-> "none"]

tablesOther ==
    <<students, staff, courses, enrollments, attendance, admissions,
      notifications, exams, grades, fees, programs, departments, today>>

(***************************************************************************)
(* Operations on users                                                     *)
(***************************************************************************)
\* User.objects.create_user / createsuperuser / the admin site: a new User
\* row is saved and post_save fires with created = True
UserCreate(uid, su, st) ==
    LET u == [is_superuser |-> su, is_staff |-> st]
    IN  /\ uid \notin DOMAIN users
        /\ users' = WithUser(users, uid, u)
        /\ profiles' = create_user_profile(profiles, uid, u, TRUE).table
        /\ last' = [op |-> "UserCreate", user |-> uid]
        /\ UNCHANGED tablesOther

\* a later save of an existing User: post_save fires with created = False
UserSave(uid, su, st) ==
    LET u == [is_superuser |-> su, is_staff |-> st]
    IN  /\ uid \in DOMAIN users
        /\ users' = WithUser(users, uid, u)
        /\ profiles' = create_user_profile(profiles, uid, u, FALSE).table
        /\ last' = [op |-> "UserSave", user |-> uid]
        /\ UNCHANGED tablesOther

\* UserCreateSerializer.create(validated_data): user.save() (which fires the
\* post_save hook), then UserProfile.objects.create; no transaction wraps it
UserCreateSerializer_create(uid, su, st) ==
    LET u == [is_superuser |-> su, is_staff |-> st]
        afterSave == create_user_profile(profiles, uid, u, TRUE)
        afterCreate == UserProfileCreate(afterSave.table, uid, RoleOf(u))
    IN  /\ uid \notin DOMAIN users
        /\ users' = WithUser(users, uid, u)
        /\ profiles' = afterCreate.table
        /\ last' = [op |-> "UserCreateSerializer.create", user |-> uid,
                    status |-> IF afterSave.ok /\ afterCreate.ok
                               THEN "ok" ELSE "IntegrityError"]
        /\ UNCHANGED tablesOther

(***************************************************************************)
(* Permission checks                                                       *)
(***************************************************************************)
\* RoleBasedPermission().has_permission(request, view) applied to a request
\* of any requester and any view of the program
HasPermissionCall(req, view) ==
    /\ req = Anonymous \/ req \in DOMAIN users
    /\ last' = [op |-> "has_permission", user |-> req, view |-> view,
                result |-> has_permission(req, view)]
    /\ UNCHANGED <<users, profiles, tablesOther>>

\* APIView.dispatch up to the handler: initial() runs check_permissions and
\* the handler (which reads or writes the database) runs only when it grants
ViewDispatch(req, view) ==
    /\ req = Anonymous \/ req \in DOMAIN users
    /\ last' = [op |-> "dispatch", user |-> req, view |-> view,
                status |-> LET r == check_permissions(req, view)
                           IN  IF r = "grant" THEN "handled"
                               ELSE IF r = "deny" THEN "denied" ELSE "error"]
    /\ UNCHANGED <<users, profiles, tablesOther>>

(***************************************************************************)
(* Spec: the permission layer.  Users come and go through the model layer  *)
(* and any requester calls any view.                                       *)
(***************************************************************************)
MaxActors == 1

ActorIds == 1..MaxActors

Next ==
    \/ \E uid \in ActorIds, su \in BOOLEAN, st \in BOOLEAN : UserCreate(uid, su, st)
    \/ \E uid \in ActorIds, su \in BOOLEAN, st \in BOOLEAN : UserSave(uid, su, st)
    \/ \E req \in ActorIds \cup {Anonymous}, view \in Views : HasPermissionCall(req, view)
    \/ \E req \in ActorIds \cup {Anonymous}, view \in Views : ViewDispatch(req, view)

Spec == Init /\ [][Next]_vars

\* C1: RoleBasedPermission grants exactly the authenticated requesters whose
\* profile role is in the view's allowed_roles; a view without allowed_roles
\* grants nobody, and is_superuser / is_staff alone grant nothing.
C1_RolePermissionIff ==
    last.op = "has_permission" =>
        /\ (last.result = "grant") <=>
               /\ last.user # Anonymous
               /\ \E p \in profiles :
                      p.user = last.user /\ p.role \in DeclaredRoles(last.view)
               /\ HasAllowedRoles(last.view)
        /\ last.view \in BulkViews => last.result # "grant"

\* a superuser whose profile role is Student asks for an Admin/Staff view
\* and is refused
C1_Witness ==
    /\ last.op = "has_permission"
    /\ last.user # Anonymous
    /\ users[last.user].is_superuser
    /\ users[last.user].is_staff
    /\ ProfileRole(last.user) = "Student"
    /\ last.view = "DepartmentViewSet"
    /\ last.result = "deny"

\* C2: every routed endpoint applies the role allow-list check, so a handler
\* runs only for a requester whose profile role is in the endpoint's
\* allow-list.
C2_EveryEndpointChecksRole ==
    (last.op = "dispatch" /\ last.status = "handled") =>
        \E p \in profiles :
            p.user = last.user /\ p.role \in allowed_roles(last.view)

(***************************************************************************)
(* SpecUsers: creation and later saves of users.                           *)
(***************************************************************************)
NextUsers ==
    \/ \E uid \in UserIds, su \in BOOLEAN, st \in BOOLEAN : UserCreate(uid, su, st)
    \/ \E uid \in UserIds, su \in BOOLEAN, st \in BOOLEAN : UserSave(uid, su, st)
    \/ \E uid \in UserIds, su \in BOOLEAN, st \in BOOLEAN :
           UserCreateSerializer_create(uid, su, st)

SpecUsers == Init /\ [][NextUsers]_vars

\* C10: UserCreateSerializer.create on valid data completes without error
\* and leaves the new user with exactly one profile, of the role its flags
\* give.
C10_UserCreateCompletes ==
    last.op = "UserCreateSerializer.create" =>
        /\ last.status = "ok"
        /\ Cardinality({p \in profiles : p.user = last.user}) = 1
        /\ \A p \in profiles :
               p.user = last.user => p.role = RoleOf(users[last.user])

ProfilesOf(P, uid) == {p \in P : p.user = uid}

\* one step as seen by the profiles: a user that appears gets exactly one
\* profile, of the role its flags give; the profile rows of a user that was
\* there stay as they were
ProfileStep ==
    \A uid \in DOMAIN users' :
        IF uid \in DOMAIN users
        THEN ProfilesOf(profiles', uid) = ProfilesOf(profiles, uid)
        ELSE /\ Cardinality(ProfilesOf(profiles', uid)) = 1
             /\ \A p \in ProfilesOf(profiles', uid) : p.role = RoleOf(users'[uid])

\* C11: whenever a User row is created the post-save hook creates exactly
\* one UserProfile for it, of role Admin if is_superuser, otherwise Staff if
\* is_staff, otherwise Student; later saves of the user create no further
\* profile and never change the stored role, whatever the flags become.
C11_ProfileOnce ==
    /\ [](\A uid \in DOMAIN users : Cardinality(ProfilesOf(profiles, uid)) = 1)
    /\ [][ProfileStep]_vars

\* a user was saved again with flags that give another role than the stored
C11_Witness ==
    /\ last.op = "UserSave"
    /\ HasProfile(last.user)
    /\ ProfileRole(last.user) # RoleOf(users[last.user])

(***************************************************************************)
(* 2. URL resolution (urls.py)                                             *)
(*                                                                         *)
(* A path is the sequence of its segments (the text between slashes, the   *)
(* trailing slash present).  A segment is its name, which holds neither a  *)
(* slash nor a dot, and the format suffix that follows a dot in it ("" for *)
(* none).  The resolver tries the patterns in the order they are listed    *)
(* and the first that matches decides.                                     *)
(***************************************************************************)
MaxSegs == 2

SegNames == {"students", "courses", "bulk", "dashboard", "deactivate", "7"}

Formats == {"", "json"}

Segments == [name : SegNames, fmt : Formats]

Paths == UNION {[1..n -> Segments] : n \in 0..MaxSegs}

Seg(s) == [name |-> s, fmt |-> ""]

Lit(s) == [kind |-> "lit", text |-> s]

\* the lookup group (?P<pk>[^/.]+) of a detail route
PkGroup == [kind |-> "pk", text |-> ""]

\* [^/.]+ : a non-empty name (names hold no slash and no dot)
MatchesPk(seg) == seg.name # ""

\* one pattern segment against one path segment; withFmt: the pattern is the
\* format-suffix variant and this is its last segment
MatchSeg(pseg, seg, withFmt) ==
    /\ IF pseg.kind = "lit" THEN seg.name = pseg.text ELSE MatchesPk(seg)
    /\ IF withFmt THEN seg.fmt # "" ELSE seg.fmt = ""

Matches(route, path) ==
    /\ Len(route.segs) = Len(path)
    /\ \A i \in 1..Len(path) :
           MatchSeg(route.segs[i], path[i], route.suffix /\ i = Len(path))

\* router.register calls, in order: prefix, viewset and the names of the
\* viewset's @action(detail=True) methods
registry ==
    <<[prefix |-> "departments", view |-> "DepartmentViewSet", actions |-> << >>],
      [prefix |-> "designations", view |-> "DesignationViewSet", actions |-> << >>],
      [prefix |-> "programs", view |-> "ProgramViewSet", actions |-> << >>],
      [prefix |-> "courses", view |-> "CourseViewSet", actions |-> << >>],
      [prefix |-> "students", view |-> "StudentViewSet", actions |-> <<"deactivate">>],
      [prefix |-> "staff", view |-> "StaffViewSet", actions |-> <<"deactivate">>],
      [prefix |-> "admissions", view |-> "AdmissionViewSet", actions |-> << >>],
      [prefix |-> "enrollments", view |-> "EnrollmentViewSet", actions |-> << >>],
      [prefix |-> "attendance", view |-> "AttendanceViewSet", actions |-> << >>],
      [prefix |-> "exams", view |-> "ExamViewSet", actions |-> << >>],
      [prefix |-> "grades", view |-> "GradeViewSet", actions |-> << >>],
      [prefix |-> "fees", view |-> "FeeViewSet", actions |-> <<"mark_paid">>],
      [prefix |-> "notifications", view |-> "NotificationViewSet",
       actions |-> <<"mark_read">>]>>

Route(segs, view) == [segs |-> segs, view |-> view, suffix |-> FALSE]

\* format_suffix_patterns: each route is followed by its variant whose last
\* segment carries a format suffix
WithSuffix(route) ==
    <<route,
      IF Len(route.segs) = 0
      THEN [route EXCEPT !.segs = <<Lit("")>>, !.suffix = TRUE]
      ELSE [route EXCEPT !.suffix = TRUE]>>

\* the routes DefaultRouter generates for one registered viewset: the list
\* route, the detail route, then one route per detail action
RoutesOf(e) ==
    WithSuffix(Route(<<Lit(e.prefix)>>, e.view))
        \o WithSuffix(Route(<<Lit(e.prefix), PkGroup>>, e.view))
        \o (IF Len(e.actions) = 0 THEN << >>
            ELSE WithSuffix(Route(<<Lit(e.prefix), PkGroup, Lit(e.actions[1])>>,
                                  e.view)))

RECURSIVE RouterUrlsFrom(_)
RouterUrlsFrom(i) ==
    IF i > Len(registry) THEN WithSuffix(Route(<< >>, "APIRootView"))
    ELSE RoutesOf(registry[i]) \o RouterUrlsFrom(i + 1)

\* router.urls
router_urls == RouterUrlsFrom(1)

\* urlpatterns of app/urls.py
urlpatterns ==
    router_urls
        \o <<Route(<<Lit("students"), Lit("bulk")>>, "StudentBulkAPIView"),
             Route(<<Lit("courses"), Lit("bulk")>>, "CourseBulkAPIView"),
             Route(<<Lit("dashboard")>>, "DashboardAPIView")>>

\* the view of the first pattern that matches, or Resolver404
resolve(path) ==
    LET hits == {i \in 1..Len(urlpatterns) : Matches(urlpatterns[i], path)}
    IN  IF hits = {} THEN "Resolver404"
        ELSE urlpatterns[CHOOSE i \in hits : \A j \in hits : i <= j].view

\* one request's path is resolved
UrlResolve(path) ==
    /\ last' = [op |-> "resolve", path |-> path, view |-> resolve(path)]
    /\ UNCHANGED <<users, profiles, tablesOther>>

NextRouting == \E path \in Paths : UrlResolve(path)

SpecRouting == Init /\ [][NextRouting]_vars

\* C9: students/bulk/ is dispatched to StudentBulkAPIView and courses/bulk/
\* to CourseBulkAPIView; no earlier pattern captures these paths.
C9_BulkPathsReachBulkViews ==
    last.op = "resolve" =>
        /\ last.path = <<Seg("students"), Seg("bulk")>>
               => last.view = "StudentBulkAPIView"
        /\ last.path = <<Seg("courses"), Seg("bulk")>>
               => last.view = "CourseBulkAPIView"

(***************************************************************************)
(* 3. A populated database: four users, one of each kind and a second      *)
(* student, each with the profile its creation gave it.                    *)
(***************************************************************************)
SeedUsers ==
    (1 :> [is_superuser |-> TRUE, is_staff |-> TRUE])
        @@ (2 :> [is_superuser |-> FALSE, is_staff |-> TRUE])
        @@ (3 :> [is_superuser |-> FALSE, is_staff |-> FALSE])
        @@ (4 :> [is_superuser |-> FALSE, is_staff |-> FALSE])

SeedProfiles ==
    {[id |-> u, user |-> u, role |-> RoleOf(SeedUsers[u])] : u \in DOMAIN SeedUsers}

SeededDb ==
    /\ users = SeedUsers
    /\ profiles = SeedProfiles
    /\ students = {}
    /\ staff = {}
    /\ courses = {}
    /\ enrollments = {}
    /\ attendance = {}
    /\ admissions = {}
    /\ notifications = {}
    /\ exams = {}
    /\ grades = {}
    /\ fees = {}
    /\ programs = {}
    /\ departments = {}

AnyRequester == (DOMAIN SeedUsers) \cup {Anonymous}

(***************************************************************************)
(* 4. Students (models.py, serializers.py, views.py)                       *)
(*                                                                         *)
(* A Student row keeps its primary key, its user (one-to-one, not null)    *)
(* and is_active.                                                          *)
(***************************************************************************)
MaxStudents == 2

StudentIds == 1..MaxStudents

\* Student.user: OneToOneField, NOT NULL
StudentConstraintsOk(table, row) ==
    /\ row.user # NoRow
    /\ \A s \in table : s.id # row.id => s.user # row.user

\* INSERT or UPDATE of one Student row
StudentStore(table, row) ==
    IF StudentConstraintsOk(table, row)
    THEN Stored({s \in table : s.id # row.id} \cup {row})
    ELSE Rejected(table)

\* StudentSerializer.validate_dob: the date of birth is not in the future
StudentSerializerValid(data) == data.dob <= today

\* a slip: the role scoping forgotten
get_queryset_all(req) == students

\* StudentViewSet.get_queryset
get_queryset(req) ==
    IF ProfileRole(req) = "Student"
    THEN {s \in students : s.user = req}
    ELSE students

\* GenericAPIView.get_object over get_queryset: the rows of the queryset
\* with this primary key, none meaning Http404
get_object(req, pk) == {s \in get_queryset(req) : s.id = pk}

TheRow(rows) == CHOOSE s \in rows : TRUE

\* on_delete=CASCADE of every foreign key to Student
StudentCascade(pk) ==
    /\ enrollments' = {e \in enrollments : e.student # pk}
    /\ attendance' = {a \in attendance : a.student # pk}
    /\ admissions' = {a \in admissions : a.student # pk}
    /\ notifications' = {n \in notifications : n.recipient_student # pk}
    /\ grades' = {g \in grades : g.student # pk}
    /\ fees' = {f \in fees : f.student # pk}

OwnerOf(pk) ==
    IF \E s \in students : s.id = pk
    THEN (CHOOSE s \in students : s.id = pk).user
    ELSE NoRow

\* the record of a request to the students endpoint: what was asked, the
\* answer, whether the row existed and whose it was, the users whose rows
\* the response shows and the users whose rows the request changed
StudentResponse(op, req, pk, status, seen, after) ==
    [op |-> op, user |-> req, pk |-> pk, status |-> status,
     existed |-> \E s \in students : s.id = pk,
     owner |-> OwnerOf(pk),
     seen |-> {s.user : s \in seen},
     touched |-> {s.user : s \in students \ after}]

StudentDenied(op, req, pk) ==
    /\ last' = StudentResponse(op, req, pk, "denied", {}, students)
    /\ UNCHANGED <<users, profiles, tablesOther>>

\* the admin site (StudentAdmin) adds a Student for an existing user
AdminStudentAdd(uid) ==
    LET row == [id |-> NewId(students), user |-> uid, is_active |-> TRUE]
    IN  /\ Cardinality(students) < MaxStudents
        /\ uid \in DOMAIN users
        /\ StudentStore(students, row).ok
        /\ students' = StudentStore(students, row).table
        /\ last' = [op |-> "AdminStudentAdd", user |-> uid]
        /\ UNCHANGED <<users, profiles, staff, courses, enrollments,
                       attendance, admissions, notifications, exams,
                       grades, fees, programs, departments, today>>

\* GET students/
StudentList(req) ==
    IF check_permissions(req, "StudentViewSet") # "grant"
    THEN StudentDenied("list", req, NoRow)
    ELSE /\ last' = StudentResponse("list", req, NoRow, "ok",
                                    get_queryset(req), students)
         /\ UNCHANGED <<users, profiles, tablesOther>>

\* GET students/<pk>/
StudentRetrieve(req, pk) ==
    IF check_permissions(req, "StudentViewSet") # "grant"
    THEN StudentDenied("retrieve", req, pk)
    ELSE LET found == get_object(req, pk)
             obj == TheRow(found)
         IN  /\ last' = IF found = {}
                        THEN StudentResponse("retrieve", req, pk, "404", {}, students)
                        ELSE StudentResponse("retrieve", req, pk, "ok", {obj}, students)
             /\ UNCHANGED <<users, profiles, tablesOther>>

\* PUT / PATCH students/<pk>/
StudentUpdate(req, pk, data) ==
    IF check_permissions(req, "StudentViewSet") # "grant"
    THEN StudentDenied("update", req, pk)
    ELSE LET found == get_object(req, pk)
             obj == TheRow(found)
             row == [obj EXCEPT !.is_active = data.is_active]
         IN  IF found = {}
             THEN /\ last' = StudentResponse("update", req, pk, "404", {}, students)
                  /\ UNCHANGED <<users, profiles, tablesOther>>
             ELSE IF ~StudentSerializerValid(data)
             THEN /\ last' = StudentResponse("update", req, pk, "400", {}, students)
                  /\ UNCHANGED <<users, profiles, tablesOther>>
             ELSE /\ students' = StudentStore(students, row).table
                  /\ last' = StudentResponse("update", req, pk, "ok", {row},
                                             StudentStore(students, row).table)
                  /\ UNCHANGED <<users, profiles, staff, courses, enrollments,
                                 attendance, admissions, notifications, exams,
                       grades, fees, programs, departments, today>>

\* DELETE students/<pk>/
StudentDestroy(req, pk) ==
    IF check_permissions(req, "StudentViewSet") # "grant"
    THEN StudentDenied("destroy", req, pk)
    ELSE LET found == get_object(req, pk)
             obj == TheRow(found)
         IN  IF found = {}
             THEN /\ last' = StudentResponse("destroy", req, pk, "404", {}, students)
                  /\ UNCHANGED <<users, profiles, tablesOther>>
             ELSE /\ students' = students \ {obj}
                  /\ StudentCascade(pk)
                  /\ last' = StudentResponse("destroy", req, pk, "ok", {},
                                             students \ {obj})
                  /\ UNCHANGED <<users, profiles, staff, courses, exams, programs,
                            departments, today>>

\* POST students/<pk>/deactivate/
StudentDeactivate(req, pk) ==
    IF check_permissions(req, "StudentViewSet") # "grant"
    THEN StudentDenied("deactivate", req, pk)
    ELSE LET found == get_object(req, pk)
             obj == TheRow(found)
             row == [obj EXCEPT !.is_active = FALSE]
         IN  IF found = {}
             THEN /\ last' = StudentResponse("deactivate", req, pk, "404", {}, students)
                  /\ UNCHANGED <<users, profiles, tablesOther>>
             ELSE /\ students' = StudentStore(students, row).table
                  /\ last' = StudentResponse("deactivate", req, pk, "ok", {},
                                             StudentStore(students, row).table)
                  /\ UNCHANGED <<users, profiles, staff, courses, enrollments,
                                 attendance, admissions, notifications, exams,
                       grades, fees, programs, departments, today>>

\* StudentSerializer(data=...).save() on a create: user is a read-only field
\* of the serializer, so the row is inserted without a user
StudentSerializerCreate(table, data) ==
    StudentStore(table, [id |-> NewId(table), user |-> NoRow,
                         is_active |-> data.is_active])

\* POST students/
StudentCreate(req, data) ==
    IF check_permissions(req, "StudentViewSet") # "grant"
    THEN /\ last' = [op |-> "create", user |-> req, valid |-> FALSE,
                     status |-> "denied", data |-> data]
         /\ UNCHANGED <<users, profiles, tablesOther>>
    ELSE IF ~StudentSerializerValid(data)
    THEN /\ last' = [op |-> "create", user |-> req, valid |-> FALSE,
                     status |-> "400", data |-> data]
         /\ UNCHANGED <<users, profiles, tablesOther>>
    ELSE LET stored == StudentSerializerCreate(students, data)
         IN  /\ students' = stored.table
             /\ last' = [op |-> "create", user |-> req, valid |-> TRUE,
                         status |-> IF stored.ok THEN "201" ELSE "IntegrityError",
                         data |-> data]
             /\ UNCHANGED <<users, profiles, staff, courses, enrollments,
                            attendance, admissions, notifications, exams,
                       grades, fees, programs, departments, today>>

StudentData == [is_active : BOOLEAN, dob : {today, today + 1}]

InitStudents ==
    /\ SeededDb
    /\ today = 1
    /\ last = [op |-> "none"]

NextStudents ==
    \/ \E uid \in DOMAIN SeedUsers : AdminStudentAdd(uid)
    \/ \E req \in AnyRequester : StudentList(req)
    \/ \E req \in AnyRequester, pk \in StudentIds : StudentRetrieve(req, pk)
    \/ \E req \in AnyRequester, pk \in StudentIds, data \in StudentData :
           StudentUpdate(req, pk, data)
    \/ \E req \in AnyRequester, pk \in StudentIds : StudentDestroy(req, pk)
    \/ \E req \in AnyRequester, pk \in StudentIds : StudentDeactivate(req, pk)
    \/ \E req \in AnyRequester, data \in StudentData : StudentCreate(req, data)

SpecStudents == InitStudents /\ [][NextStudents]_vars

StudentScopedOps == {"list", "retrieve", "update", "destroy", "deactivate"}

\* C3: on the students endpoint a requester of role Student lists, retrieves,
\* updates, deletes or deactivates only the Student row whose user is the
\* requester, every other row being not found; a requester of role Staff or
\* Admin reaches every Student row.
C3_StudentScope ==
    (last.op \in StudentScopedOps /\ last.status # "denied") =>
        /\ ProfileRole(last.user) = "Student" =>
               /\ last.seen \subseteq {last.user}
               /\ last.touched \subseteq {last.user}
               /\ last.op # "list" =>
                      /\ last.owner = last.user <=> last.status # "404"
                      /\ last.status = "ok" => last.owner = last.user
        /\ ProfileRole(last.user) \in {"Staff", "Admin"} =>
               /\ (last.op # "list" /\ last.existed) => last.status # "404"
               /\ last.op = "list" => last.seen = {s.user : s \in students}

\* a Student-role requester asks for the row of another student, which
\* exists, and gets not found
C3_Witness ==
    /\ last.op = "retrieve"
    /\ last.status = "404"
    /\ ProfileRole(last.user) = "Student"
    /\ last.existed
    /\ last.owner # last.user
    /\ \E s \in students : s.user = last.user

\* C8: a create on the students endpoint whose data passes StudentSerializer
\* validation stores a new Student row.
C8_ValidCreateStores ==
    (last.op = "create" /\ last.valid) =>
        /\ last.status = "201"
        /\ students # {}

(***************************************************************************)
(* 5. Bulk create of students and courses (views.py)                       *)
(*                                                                         *)
(* A Course row keeps its primary key, its code (unique) and its semester  *)
(* (one of SEMESTERS).                                                     *)
(***************************************************************************)
MaxItems == 2

Codes == {"CS101", "CS102"}

\* Course.SEMESTERS: range(1, 9)
SEMESTERS == 1..8

CourseData == [code : Codes, semester : {1, 9}]

\* Course.code: unique
CourseConstraintsOk(table, row) ==
    \A c \in table : c.id # row.id => c.code # row.code

\* INSERT or UPDATE of one Course row
CourseStore(table, row) ==
    IF CourseConstraintsOk(table, row)
    THEN Stored({c \in table : c.id # row.id} \cup {row})
    ELSE Rejected(table)

\* CourseSerializer.is_valid for one item: the unique validator of code
\* against the stored rows (the instance itself excluded on update) and the
\* choices of semester
CourseSerializerValid(table, pk, data) ==
    /\ \A c \in table : c.id # pk => c.code # data.code
    /\ data.semester \in SEMESTERS

\* CourseSerializer.create
CourseSerializerCreate(table, data) ==
    CourseStore(table, [id |-> NewId(table), code |-> data.code,
                        semester |-> data.semester])

\* ListSerializer.create: child.create for each item in order; the first
\* IntegrityError ends it, the rows stored before it still in the table
RECURSIVE CourseCreateAll(_, _, _)
CourseCreateAll(table, items, i) ==
    IF i > Len(items) THEN Stored(table)
    ELSE LET r == CourseSerializerCreate(table, items[i])
         IN  IF r.ok THEN CourseCreateAll(r.table, items, i + 1)
             ELSE Rejected(r.table)

RECURSIVE StudentCreateAll(_, _, _)
StudentCreateAll(table, items, i) ==
    IF i > Len(items) THEN Stored(table)
    ELSE LET r == StudentSerializerCreate(table, items[i])
         IN  IF r.ok THEN StudentCreateAll(r.table, items, i + 1)
             ELSE Rejected(r.table)

\* a slip: the decorator left off, so what was stored before the error stays
atomic_absent(before, result) == result.table

\* @transaction.atomic: the writes of a handler that raised are rolled back
atomic(before, result) == IF result.ok THEN result.table ELSE before

BulkResponse(op, req, status, items, before) ==
    [op |-> op, user |-> req, status |-> status, items |-> items,
     before |-> before]

\* CourseBulkAPIView.post
CourseBulkPost(req, items) ==
    IF check_permissions(req, "CourseBulkAPIView") # "grant"
    THEN /\ last' = BulkResponse("CourseBulkAPIView.post", req, "denied", items, courses)
         /\ UNCHANGED <<users, profiles, tablesOther>>
    ELSE IF \E i \in 1..Len(items) : ~CourseSerializerValid(courses, NoRow, items[i])
    THEN /\ last' = BulkResponse("CourseBulkAPIView.post", req, "400", items, courses)
         /\ UNCHANGED <<users, profiles, tablesOther>>
    ELSE LET r == CourseCreateAll(courses, items, 1)
         IN  /\ courses' = atomic(courses, r)
             /\ last' = BulkResponse("CourseBulkAPIView.post", req,
                                     IF r.ok THEN "201" ELSE "IntegrityError",
                                     items, courses)
             /\ UNCHANGED <<users, profiles, students, staff, enrollments,
                            attendance, admissions, notifications, exams,
                       grades, fees, programs, departments, today>>

\* StudentBulkAPIView.post
StudentBulkPost(req, items) ==
    IF check_permissions(req, "StudentBulkAPIView") # "grant"
    THEN /\ last' = BulkResponse("StudentBulkAPIView.post", req, "denied", items, students)
         /\ UNCHANGED <<users, profiles, tablesOther>>
    ELSE IF \E i \in 1..Len(items) : ~StudentSerializerValid(items[i])
    THEN /\ last' = BulkResponse("StudentBulkAPIView.post", req, "400", items, students)
         /\ UNCHANGED <<users, profiles, tablesOther>>
    ELSE LET r == StudentCreateAll(students, items, 1)
         IN  /\ students' = atomic(students, r)
             /\ last' = BulkResponse("StudentBulkAPIView.post", req,
                                     IF r.ok THEN "201" ELSE "IntegrityError",
                                     items, students)
             /\ UNCHANGED <<users, profiles, staff, courses, enrollments,
                            attendance, admissions, notifications, exams,
                       grades, fees, programs, departments, today>>

ItemLists(S) == UNION {[1..n -> S] : n \in 1..MaxItems}

InitBulk ==
    /\ SeededDb
    /\ today = 1
    /\ last = [op |-> "none"]

\* the bulk views tell requesters apart only by authentication: an
\* anonymous requester and one of role Student
BulkRequesters == {Anonymous, 3}

NextBulk ==
    \/ \E req \in BulkRequesters, items \in ItemLists(CourseData) :
           CourseBulkPost(req, items)
    \/ \E req \in BulkRequesters, items \in ItemLists(StudentData) :
           StudentBulkPost(req, items)

SpecBulk == InitBulk /\ [][NextBulk]_vars

\* C7: bulk create of students or courses is all-or-nothing: when an item
\* fails validation or fails to be stored, no row of the list is created and
\* an error is answered; 201 is answered only when every item is stored.
C7_BulkCreateAllOrNothing ==
    /\ last.op = "CourseBulkAPIView.post" =>
           IF last.status = "201"
           THEN /\ last.before \subseteq courses
                /\ Cardinality(courses) = Cardinality(last.before) + Len(last.items)
                /\ \A i \in 1..Len(last.items) :
                       \E c \in courses \ last.before :
                           /\ c.code = last.items[i].code
                           /\ c.semester = last.items[i].semester
           ELSE courses = last.before
    /\ last.op = "StudentBulkAPIView.post" =>
           IF last.status = "201"
           THEN /\ last.before \subseteq students
                /\ Cardinality(students) = Cardinality(last.before) + Len(last.items)
           ELSE students = last.before

\* two valid items with the same new code: the second insert fails and the
\* first is not kept
C7_Witness ==
    /\ last.op = "CourseBulkAPIView.post"
    /\ last.status = "IntegrityError"
    /\ Len(last.items) = 2
    /\ last.items[1].code = last.items[2].code
    /\ \A c \in courses : c.code # last.items[1].code
    /\ courses # {}

(***************************************************************************)
(* 6. Notifications (models.py) and the post_save hooks (signals.py)       *)
(***************************************************************************)
MaxNotifications == 2

\* Notification.objects.create(**fields): read and auto_resolved default to
\* False, created_at is the day of creation; both recipients default to null
NotificationCreate(N, fields) ==
    N \cup {[id |-> NewId(N),
             recipient_student |-> fields.recipient_student,
             recipient_staff |-> fields.recipient_staff,
             notif_type |-> fields.notif_type,
             title |-> fields.title,
             read |-> fields.read,
             auto_resolved |-> fields.auto_resolved,
             created_at |-> today]}

\* a slip: the recipient left out of what a receiver creates
ForNobody(sid, type, title) ==
    [recipient_student |-> NoRow, recipient_staff |-> NoRow, notif_type |-> type,
     title |-> title, read |-> FALSE, auto_resolved |-> FALSE]

\* the fields a receiver gives a notification for a student
ForStudent(sid, type, title) ==
    [recipient_student |-> sid, recipient_staff |-> NoRow, notif_type |-> type,
     title |-> title, read |-> FALSE, auto_resolved |-> FALSE]

\* post_save receiver of Enrollment
create_enrollment_notification(N, instance, created) ==
    IF created
    THEN NotificationCreate(N, ForStudent(instance.student, "Enrollment",
                                          "Course Enrollment Successful"))
    ELSE N

\* post_save receiver of Attendance
create_attendance_notification(N, instance, created) ==
    IF created
    THEN NotificationCreate(N, ForStudent(instance.student, "Attendance",
                                          "Attendance Recorded"))
    ELSE N

(***************************************************************************)
(* 7. Enrollment and Attendance (models.py, serializers.py, views.py,      *)
(* admin.py)                                                               *)
(*                                                                         *)
(* An Enrollment row: id, student, course, semester, year, date_enrolled.  *)
(* An Attendance row: id, student, course, date.                           *)
(***************************************************************************)
SameEnrollment(a, b) ==
    /\ a.student = b.student
    /\ a.course = b.course
    /\ a.semester = b.semester
    /\ a.year = b.year

SameAttendance(a, b) ==
    /\ a.student = b.student
    /\ a.course = b.course
    /\ a.date = b.date

\* a slip: Meta.unique_together left out of Enrollment
EnrollmentUniqueAbsent(table, row) == TRUE

\* Enrollment.Meta.unique_together
EnrollmentUnique(table, row) ==
    \A e \in table : e.id # row.id => ~SameEnrollment(e, row)

\* Attendance.Meta.unique_together
AttendanceUnique(table, row) ==
    \A a \in table : a.id # row.id => ~SameAttendance(a, row)

\* INSERT or UPDATE of one Enrollment row
EnrollmentStore(table, row) ==
    IF EnrollmentUnique(table, row)
    THEN Stored({e \in table : e.id # row.id} \cup {row})
    ELSE Rejected(table)

\* INSERT or UPDATE of one Attendance row
AttendanceStore(table, row) ==
    IF AttendanceUnique(table, row)
    THEN Stored({a \in table : a.id # row.id} \cup {row})
    ELSE Rejected(table)

\* EnrollmentSerializer.validate: any stored row of the same student,
\* course, semester and year fails the data (on an update the instance
\* itself counts)
EnrollmentSerializerValid(table, data) ==
    ~\E e \in table : SameEnrollment(e, data)

\* AttendanceSerializer.validate
AttendanceSerializerValid(table, data) ==
    ~\E a \in table : SameAttendance(a, data)

NewEnrollment(data) ==
    [id |-> NewId(enrollments), student |-> data.student, course |-> data.course,
     semester |-> data.semester, year |-> data.year, date_enrolled |-> today]

NewAttendance(data) ==
    [id |-> NewId(attendance), student |-> data.student, course |-> data.course,
     date |-> data.date]

\* the record of a request on one of the two tables: what was asked, the
\* answer, whether the data repeated the key of a stored row, and the table
\* as it was
RecordResponse(op, status, table, duplicate) ==
    [op |-> op, status |-> status, duplicate |-> duplicate, before |-> table]

recordsOther ==
    <<users, profiles, students, staff, courses, admissions, exams, grades,
      fees, programs, departments, today>>

\* POST enrollments/
EnrollmentCreate(req, data) ==
    LET dup == \E e \in enrollments : SameEnrollment(e, data)
        r == EnrollmentStore(enrollments, NewEnrollment(data))
    IN  /\ Cardinality(notifications) < MaxNotifications
        /\ UNCHANGED <<recordsOther, attendance>>
        /\ IF check_permissions(req, "EnrollmentViewSet") # "grant"
           THEN /\ last' = RecordResponse("EnrollmentCreate", "denied", enrollments, dup)
                /\ UNCHANGED <<enrollments, notifications>>
           ELSE IF ~EnrollmentSerializerValid(enrollments, data)
           THEN /\ last' = RecordResponse("EnrollmentCreate", "400", enrollments, dup)
                /\ UNCHANGED <<enrollments, notifications>>
           ELSE /\ enrollments' = r.table
                /\ notifications' =
                       IF r.ok
                       THEN create_enrollment_notification(
                                notifications, NewEnrollment(data), TRUE)
                       ELSE notifications
                /\ last' = RecordResponse("EnrollmentCreate",
                                          IF r.ok THEN "201" ELSE "IntegrityError",
                                          enrollments, dup)

\* PUT enrollments/<pk>/
EnrollmentUpdate(req, pk, data) ==
    LET found == {e \in enrollments : e.id = pk}
        obj == TheRow(found)
        row == [obj EXCEPT !.student = data.student, !.course = data.course,
                           !.semester = data.semester, !.year = data.year]
        dup == \E e \in enrollments : e.id # pk /\ SameEnrollment(e, data)
        r == EnrollmentStore(enrollments, row)
    IN  /\ UNCHANGED <<recordsOther, attendance>>
        /\ IF check_permissions(req, "EnrollmentViewSet") # "grant"
           THEN /\ last' = RecordResponse("EnrollmentUpdate", "denied", enrollments, dup)
                /\ UNCHANGED <<enrollments, notifications>>
           ELSE IF found = {}
           THEN /\ last' = RecordResponse("EnrollmentUpdate", "404", enrollments, dup)
                /\ UNCHANGED <<enrollments, notifications>>
           ELSE IF ~EnrollmentSerializerValid(enrollments, data)
           THEN /\ last' = RecordResponse("EnrollmentUpdate", "400", enrollments, dup)
                /\ UNCHANGED <<enrollments, notifications>>
           ELSE /\ enrollments' = r.table
                /\ notifications' =
                       IF r.ok
                       THEN create_enrollment_notification(notifications, row, FALSE)
                       ELSE notifications
                /\ last' = RecordResponse("EnrollmentUpdate",
                                          IF r.ok THEN "200" ELSE "IntegrityError",
                                          enrollments, dup)

\* DELETE enrollments/<pk>/
EnrollmentDestroy(req, pk) ==
    LET found == {e \in enrollments : e.id = pk}
    IN  /\ UNCHANGED <<recordsOther, attendance, notifications>>
        /\ IF check_permissions(req, "EnrollmentViewSet") # "grant"
           THEN /\ last' = RecordResponse("EnrollmentDestroy", "denied", enrollments, FALSE)
                /\ UNCHANGED enrollments
           ELSE IF found = {}
           THEN /\ last' = RecordResponse("EnrollmentDestroy", "404", enrollments, FALSE)
                /\ UNCHANGED enrollments
           ELSE /\ enrollments' = enrollments \ found
                /\ last' = RecordResponse("EnrollmentDestroy", "204", enrollments, FALSE)

\* the admin site (EnrollmentAdmin) adds a row, or changes the row pk: the
\* form's validate_unique applies Meta.unique_together, then the row is
\* saved
AdminEnrollmentSave(pk, data) ==
    LET found == {e \in enrollments : e.id = pk}
        created == found = {}
        row == IF created THEN NewEnrollment(data)
               ELSE [TheRow(found) EXCEPT !.student = data.student,
                                          !.course = data.course,
                                          !.semester = data.semester,
                                          !.year = data.year]
        dup == \E e \in enrollments : e.id # row.id /\ SameEnrollment(e, data)
        r == EnrollmentStore(enrollments, row)
    IN  /\ Cardinality(notifications) < MaxNotifications
        /\ UNCHANGED <<recordsOther, attendance>>
        /\ enrollments' = r.table
        /\ notifications' =
               IF r.ok
               THEN create_enrollment_notification(notifications, row, created)
               ELSE notifications
        /\ last' = RecordResponse(IF created THEN "AdminEnrollmentAdd"
                                  ELSE "AdminEnrollmentChange",
                                  IF r.ok THEN "saved" ELSE "form error",
                                  enrollments, dup)

\* POST attendance/
AttendanceCreate(req, data) ==
    LET dup == \E a \in attendance : SameAttendance(a, data)
        r == AttendanceStore(attendance, NewAttendance(data))
    IN  /\ Cardinality(notifications) < MaxNotifications
        /\ UNCHANGED <<recordsOther, enrollments>>
        /\ IF check_permissions(req, "AttendanceViewSet") # "grant"
           THEN /\ last' = RecordResponse("AttendanceCreate", "denied", attendance, dup)
                /\ UNCHANGED <<attendance, notifications>>
           ELSE IF ~AttendanceSerializerValid(attendance, data)
           THEN /\ last' = RecordResponse("AttendanceCreate", "400", attendance, dup)
                /\ UNCHANGED <<attendance, notifications>>
           ELSE /\ attendance' = r.table
                /\ notifications' =
                       IF r.ok
                       THEN create_attendance_notification(
                                notifications, NewAttendance(data), TRUE)
                       ELSE notifications
                /\ last' = RecordResponse("AttendanceCreate",
                                          IF r.ok THEN "201" ELSE "IntegrityError",
                                          attendance, dup)

\* PUT attendance/<pk>/
AttendanceUpdate(req, pk, data) ==
    LET found == {a \in attendance : a.id = pk}
        obj == TheRow(found)
        row == [obj EXCEPT !.student = data.student, !.course = data.course,
                           !.date = data.date]
        dup == \E a \in attendance : a.id # pk /\ SameAttendance(a, data)
        r == AttendanceStore(attendance, row)
    IN  /\ UNCHANGED <<recordsOther, enrollments>>
        /\ IF check_permissions(req, "AttendanceViewSet") # "grant"
           THEN /\ last' = RecordResponse("AttendanceUpdate", "denied", attendance, dup)
                /\ UNCHANGED <<attendance, notifications>>
           ELSE IF found = {}
           THEN /\ last' = RecordResponse("AttendanceUpdate", "404", attendance, dup)
                /\ UNCHANGED <<attendance, notifications>>
           ELSE IF ~AttendanceSerializerValid(attendance, data)
           THEN /\ last' = RecordResponse("AttendanceUpdate", "400", attendance, dup)
                /\ UNCHANGED <<attendance, notifications>>
           ELSE /\ attendance' = r.table
                /\ notifications' =
                       IF r.ok
                       THEN create_attendance_notification(notifications, row, FALSE)
                       ELSE notifications
                /\ last' = RecordResponse("AttendanceUpdate",
                                          IF r.ok THEN "200" ELSE "IntegrityError",
                                          attendance, dup)

\* DELETE attendance/<pk>/
AttendanceDestroy(req, pk) ==
    LET found == {a \in attendance : a.id = pk}
    IN  /\ UNCHANGED <<recordsOther, enrollments, notifications>>
        /\ IF check_permissions(req, "AttendanceViewSet") # "grant"
           THEN /\ last' = RecordResponse("AttendanceDestroy", "denied", attendance, FALSE)
                /\ UNCHANGED attendance
           ELSE IF found = {}
           THEN /\ last' = RecordResponse("AttendanceDestroy", "404", attendance, FALSE)
                /\ UNCHANGED attendance
           ELSE /\ attendance' = attendance \ found
                /\ last' = RecordResponse("AttendanceDestroy", "204", attendance, FALSE)

\* the admin site (AttendanceAdmin) adds a row, or changes the row pk
AdminAttendanceSave(pk, data) ==
    LET found == {a \in attendance : a.id = pk}
        created == found = {}
        row == IF created THEN NewAttendance(data)
               ELSE [TheRow(found) EXCEPT !.student = data.student,
                                          !.course = data.course,
                                          !.date = data.date]
        dup == \E a \in attendance : a.id # row.id /\ SameAttendance(a, data)
        r == AttendanceStore(attendance, row)
    IN  /\ Cardinality(notifications) < MaxNotifications
        /\ UNCHANGED <<recordsOther, enrollments>>
        /\ attendance' = r.table
        /\ notifications' =
               IF r.ok
               THEN create_attendance_notification(notifications, row, created)
               ELSE notifications
        /\ last' = RecordResponse(IF created THEN "AdminAttendanceAdd"
                                  ELSE "AdminAttendanceChange",
                                  IF r.ok THEN "saved" ELSE "form error",
                                  attendance, dup)

\* two students (of the users 3 and 4) and one course are on record
SeedStudents ==
    {[id |-> 1, user |-> 3, is_active |-> TRUE],
     [id |-> 2, user |-> 4, is_active |-> TRUE]}

SeedCourses == {[id |-> 1, code |-> "CS101", semester |-> 1]}

InitRecords ==
    /\ users = SeedUsers
    /\ profiles = SeedProfiles
    /\ students = SeedStudents
    /\ courses = SeedCourses
    /\ staff = {}
    /\ enrollments = {}
    /\ attendance = {}
    /\ admissions = {}
    /\ notifications = {}
    /\ exams = {}
    /\ grades = {}
    /\ fees = {}
    /\ programs = {}
    /\ departments = {}
    /\ today = 1
    /\ last = [op |-> "none"]

EnrollmentData ==
    [student : {s.id : s \in SeedStudents}, course : {c.id : c \in SeedCourses},
     semester : {1, 2}, year : {2025}]

AttendanceData ==
    [student : {s.id : s \in SeedStudents}, course : {c.id : c \in SeedCourses},
     date : {1, 2}]

RowIds == 1..MaxNotifications

\* a requester of role Staff and one of role Student
RecordRequesters == {2, 3}

NextRecords ==
    \/ \E req \in RecordRequesters, data \in EnrollmentData : EnrollmentCreate(req, data)
    \/ \E req \in RecordRequesters, pk \in RowIds, data \in EnrollmentData :
           EnrollmentUpdate(req, pk, data)
    \/ \E req \in RecordRequesters, pk \in RowIds : EnrollmentDestroy(req, pk)
    \/ \E pk \in RowIds, data \in EnrollmentData : AdminEnrollmentSave(pk, data)
    \/ \E req \in RecordRequesters, data \in AttendanceData : AttendanceCreate(req, data)
    \/ \E req \in RecordRequesters, pk \in RowIds, data \in AttendanceData :
           AttendanceUpdate(req, pk, data)
    \/ \E req \in RecordRequesters, pk \in RowIds : AttendanceDestroy(req, pk)
    \/ \E pk \in RowIds, data \in AttendanceData : AdminAttendanceSave(pk, data)

SpecRecords == InitRecords /\ [][NextRecords]_vars

\* C4: after any sequence of creates, updates and deletes no two Enrollment
\* rows share (student, course, semester, year) and no two Attendance rows
\* share (student, course, date); a create that would make such a duplicate
\* is rejected and leaves the table unchanged.
C4_UniqueTogether ==
    /\ \A a \in enrollments, b \in enrollments : SameEnrollment(a, b) => a = b
    /\ \A a \in attendance, b \in attendance : SameAttendance(a, b) => a = b
    /\ (last.op \in {"EnrollmentCreate", "AdminEnrollmentAdd"} /\ last.duplicate) =>
           /\ last.status \in {"400", "denied", "IntegrityError", "form error"}
           /\ enrollments = last.before
    /\ (last.op \in {"AttendanceCreate", "AdminAttendanceAdd"} /\ last.duplicate) =>
           /\ last.status \in {"400", "denied", "IntegrityError", "form error"}
           /\ attendance = last.before

\* a create through the admin site repeats the key of a stored enrollment
\* and is refused
C4_Witness ==
    /\ last.op = "AdminEnrollmentAdd"
    /\ last.duplicate
    /\ last.status = "form error"
    /\ enrollments # {}
    /\ enrollments = last.before

(***************************************************************************)
(* 8. The notifications endpoint (serializers.py, views.py)                *)
(*                                                                         *)
(* A Staff row: id, user, is_active.  In the request data of a             *)
(* notification NoRow stands for a recipient id that is left out.          *)
(***************************************************************************)
SeedStaff == {[id |-> 1, user |-> 2, is_active |-> TRUE]}

\* NotificationSerializer: recipient_student_id and recipient_staff_id are
\* optional primary keys, each looked up in its own table; no validator
\* relates the two
NotificationSerializerValid(data) ==
    /\ data.recipient_student # NoRow =>
           \E s \in students : s.id = data.recipient_student
    /\ data.recipient_staff # NoRow =>
           \E s \in staff : s.id = data.recipient_staff

notifOther ==
    <<users, profiles, students, staff, courses, enrollments, attendance,
      admissions, exams, grades, fees, programs, departments, today>>

\* POST notifications/
NotificationViewCreate(req, data) ==
    /\ Cardinality(notifications) < MaxNotifications
    /\ UNCHANGED notifOther
    /\ IF check_permissions(req, "NotificationViewSet") # "grant"
       THEN /\ last' = [op |-> "NotificationCreate", status |-> "denied"]
            /\ UNCHANGED notifications
       ELSE IF ~NotificationSerializerValid(data)
       THEN /\ last' = [op |-> "NotificationCreate", status |-> "400"]
            /\ UNCHANGED notifications
       ELSE /\ notifications' = NotificationCreate(notifications, data)
            /\ last' = [op |-> "NotificationCreate", status |-> "201"]

\* POST notifications/<pk>/mark_read/
mark_read(req, pk) ==
    LET found == {n \in notifications : n.id = pk}
    IN  /\ UNCHANGED notifOther
        /\ IF check_permissions(req, "NotificationViewSet") # "grant"
           THEN /\ last' = [op |-> "mark_read", status |-> "denied"]
                /\ UNCHANGED notifications
           ELSE IF found = {}
           THEN /\ last' = [op |-> "mark_read", status |-> "404"]
                /\ UNCHANGED notifications
           ELSE /\ notifications' =
                       (notifications \ found)
                           \cup {[TheRow(found) EXCEPT !.read = TRUE]}
                /\ last' = [op |-> "mark_read", status |-> "200"]

\* DELETE notifications/<pk>/
NotificationDestroy(req, pk) ==
    LET found == {n \in notifications : n.id = pk}
    IN  /\ UNCHANGED notifOther
        /\ IF check_permissions(req, "NotificationViewSet") # "grant"
           THEN /\ last' = [op |-> "NotificationDestroy", status |-> "denied"]
                /\ UNCHANGED notifications
           ELSE IF found = {}
           THEN /\ last' = [op |-> "NotificationDestroy", status |-> "404"]
                /\ UNCHANGED notifications
           ELSE /\ notifications' = notifications \ found
                /\ last' = [op |-> "NotificationDestroy", status |-> "204"]

NotificationData ==
    [recipient_student : {NoRow} \cup {s.id : s \in SeedStudents},
     recipient_staff : {NoRow, 1, 2},
     notif_type : {"General"},
     title : {"Notice"},
     read : {FALSE},
     auto_resolved : {FALSE}]

\* the enrollments whose saving fires a hook among the notification requests
HookEnrollmentData == {d \in EnrollmentData : d.semester = 1}

InitNotif ==
    /\ users = SeedUsers
    /\ profiles = SeedProfiles
    /\ students = SeedStudents
    /\ courses = SeedCourses
    /\ staff = SeedStaff
    /\ enrollments = {}
    /\ attendance = {}
    /\ admissions = {}
    /\ notifications = {}
    /\ exams = {}
    /\ grades = {}
    /\ fees = {}
    /\ programs = {}
    /\ departments = {}
    /\ today = 1
    /\ last = [op |-> "none"]

NextNotif ==
    \/ \E req \in AnyRequester, data \in NotificationData :
           NotificationViewCreate(req, data)
    \/ \E req \in AnyRequester, pk \in RowIds : mark_read(req, pk)
    \/ \E req \in AnyRequester, pk \in RowIds : NotificationDestroy(req, pk)
    \/ \E pk \in RowIds, data \in HookEnrollmentData : AdminEnrollmentSave(pk, data)

SpecNotif == InitNotif /\ [][NextNotif]_vars

\* C5: in every reachable state each Notification row references at most
\* one recipient: recipient_student and recipient_staff are never both set
\* on the same row, whether a post-save hook or the notifications endpoint
\* created it.
C5_AtMostOneRecipient ==
    \A n \in notifications :
        ~(n.recipient_student # NoRow /\ n.recipient_staff # NoRow)

(***************************************************************************)
(* 9. The dashboard (views.py) and admissions                              *)
(*                                                                         *)
(* Time is counted in days; an Admission row: id, student, status,         *)
(* admission_date.  A date range holds the days d with start <= d < end.   *)
(***************************************************************************)
MaxDay == 3
DaysPerMonth == 2
Days == 1..MaxDay

\* now().replace(day=1).date()
MonthStart(d) == d - ((d - 1) % DaysPerMonth)

NoRange == [given |-> FALSE, start |-> 0, end |-> 0]
Range(start, end) == [given |-> TRUE, start |-> start, end |-> end]
InRange(range, d) == range.start <= d /\ d < range.end

\* a query parameter start or end: left out, not a date, or a date
DateParams ==
    {[kind |-> "absent", day |-> 0], [kind |-> "invalid", day |-> 0]}
        \cup {[kind |-> "date", day |-> d] : d \in Days}

FilterTypes == {"absent", "today", "week", "month", "custom", "year"}

Models ==
    {"Student", "Staff", "Admission", "Enrollment", "Attendance", "Exam",
     "Grade", "Fee", "Notification"}

\* Model.objects.all()
objects(model) ==
    CASE model = "Student" -> students
      [] model = "Staff" -> staff
      [] model = "Admission" -> admissions
      [] model = "Enrollment" -> enrollments
      [] model = "Attendance" -> attendance
      [] model = "Exam" -> exams
      [] model = "Grade" -> grades
      [] model = "Fee" -> fees
      [] model = "Notification" -> notifications

\* hasattr(model, "created_at"): of the nine models only Notification
\* declares the field
HasCreatedAt(model) == model = "Notification"

\* the branches of DashboardAPIView.get that set start and end
SelectRange(filter_type, start_date, end_date) ==
    CASE filter_type = "today" -> Range(today, today + 1)
      [] filter_type = "week" -> Range(today - 7, today + 1)
      [] filter_type = "month" -> Range(MonthStart(today), today + 1)
      [] filter_type = "custom" /\ start_date.kind # "absent"
                                /\ end_date.kind # "absent" ->
             Range(start_date.day, end_date.day + 1)
      [] OTHER -> NoRange

\* a slip: the dates are taken as they come
InvalidFormatUnchecked(filter_type, start_date, end_date) == FALSE

\* datetime.strptime raises ValueError
InvalidFormat(filter_type, start_date, end_date) ==
    /\ filter_type = "custom"
    /\ start_date.kind # "absent"
    /\ end_date.kind # "absent"
    /\ "invalid" \in {start_date.kind, end_date.kind}

\* date_filter(model).count()
date_filter_count(model, range) ==
    IF HasCreatedAt(model) /\ range.given
    THEN Cardinality({r \in objects(model) : InRange(range, r.created_at)})
    ELSE Cardinality(objects(model))

\* request.query_params
QueryParams(filter_type, start_date, end_date) ==
    [filter |-> filter_type, start |-> start_date, end |-> end_date]

\* the "filter_info" of the answer: filter_type or "all", and start and end
\* (a range that is not given stands for the two of them being None)
filter_info(filter_type, range) ==
    [filter_type |-> IF filter_type = "absent" THEN "all" ELSE filter_type,
     range |-> range]

\* GET dashboard/
DashboardGet(req, filter_type, start_date, end_date) ==
    LET range == SelectRange(filter_type, start_date, end_date)
    IN  /\ UNCHANGED <<notifOther, notifications>>
        /\ IF check_permissions(req, "DashboardAPIView") # "grant"
           THEN last' = [op |-> "DashboardGet", status |-> "denied"]
           ELSE IF InvalidFormat(filter_type, start_date, end_date)
           THEN last' = [op |-> "DashboardGet", status |-> "400",
                         request |-> QueryParams(filter_type, start_date, end_date)]
           ELSE last' = [op |-> "DashboardGet", status |-> "200",
                         request |-> QueryParams(filter_type, start_date, end_date),
                         filter_type |-> filter_type, range |-> range,
                         totals |-> [m \in Models |-> date_filter_count(m, range)],
                         filter_info |-> filter_info(filter_type, range)]

\* a slip: a receiver that, like the others, acts on creation only
create_admission_notification_created(N, instance, created) ==
    IF created
    THEN NotificationCreate(N, ForStudent(instance.student, "Admission",
                                          "Admission Created"))
    ELSE N

\* post_save receiver of Admission: one notification on every save
create_admission_notification(N, instance, created) ==
    NotificationCreate(N,
        ForStudent(instance.student,
                   IF created THEN "Admission" ELSE "Admission Update",
                   IF created THEN "Admission Created" ELSE "Admission Updated"))

\* Admission.student is one-to-one
AdmissionStudentUnique(table, row) ==
    \A a \in table : a.id # row.id => a.student # row.student

\* POST admissions/
AdmissionCreate(req, data) ==
    LET row == [id |-> NewId(admissions), student |-> data.student,
                status |-> data.status, admission_date |-> today]
    IN  /\ Cardinality(notifications) < MaxNotifications
        /\ UNCHANGED <<users, profiles, students, staff, courses, enrollments,
                       attendance, exams, grades, fees, programs, departments, today>>
        /\ IF check_permissions(req, "AdmissionViewSet") # "grant"
           THEN /\ last' = [op |-> "AdmissionCreate", status |-> "denied"]
                /\ UNCHANGED <<admissions, notifications>>
           ELSE IF ~\E s \in students : s.id = data.student
           THEN /\ last' = [op |-> "AdmissionCreate", status |-> "400"]
                /\ UNCHANGED <<admissions, notifications>>
           ELSE IF ~AdmissionStudentUnique(admissions, row)
           THEN /\ last' = [op |-> "AdmissionCreate", status |-> "IntegrityError"]
                /\ UNCHANGED <<admissions, notifications>>
           ELSE /\ admissions' = admissions \cup {row}
                /\ notifications' =
                       create_admission_notification(notifications, row, TRUE)
                /\ last' = [op |-> "AdmissionCreate", status |-> "201",
                            student |-> row.student]

\* a day passes
Tick ==
    /\ today < MaxDay
    /\ today' = today + 1
    /\ last' = [op |-> "Tick"]
    /\ UNCHANGED <<users, profiles, students, staff, courses, enrollments,
                   attendance, admissions, notifications, exams, grades, fees, programs, departments>>

AdmissionData == [student : 1..3, status : {"Pending"}]

NextDashboard ==
    \/ Tick
    \/ \E req \in RecordRequesters, data \in AdmissionData : AdmissionCreate(req, data)
    \/ \E req \in RecordRequesters, f \in FilterTypes,
          sd \in DateParams, ed \in DateParams : DashboardGet(req, f, sd, ed)

SpecDashboard == InitNotif /\ [][NextDashboard]_vars

\* C6: with filter today, week, month, or custom with a valid start and
\* end, each total of the dashboard counts only the rows of its table that
\* fall inside the selected range of dates (stated here for the two tables
\* whose rows carry the day they were created, admissions and
\* notifications); with no filter each total counts all rows of its table.
C6_TotalsRespectRange ==
    (last.op = "DashboardGet" /\ last.status = "200") =>
        IF last.range.given
        THEN /\ last.totals["Admission"] =
                    Cardinality({a \in admissions :
                                     InRange(last.range, a.admission_date)})
             /\ last.totals["Notification"] =
                    Cardinality({n \in notifications :
                                     InRange(last.range, n.created_at)})
        ELSE \A m \in Models : last.totals[m] = Cardinality(objects(m))

(***************************************************************************)
(* 10. Programs, and the exams endpoint with its hook (models.py,          *)
(* signals.py, views.py)                                                   *)
(*                                                                         *)
(* Here the Student and Course rows carry their program.  A Department     *)
(* row: id, hod; a Program row: id, department; an Exam row: id, course,   *)
(* exam_type, date.                                                        *)
(***************************************************************************)
MaxExams == 2

CampusDepartments == {[id |-> 1, hod |-> NoRow]}

CampusPrograms == {[id |-> 1, department |-> 1], [id |-> 2, department |-> 1]}

CampusCourses ==
    {[id |-> 1, code |-> "CS101", semester |-> 1, program |-> 1],
     [id |-> 2, code |-> "CS102", semester |-> 1, program |-> 2]}

CampusStudents ==
    {[id |-> 1, user |-> 3, is_active |-> TRUE, program |-> 1],
     [id |-> 2, user |-> 4, is_active |-> TRUE, program |-> 1]}

InitCampus ==
    /\ users = SeedUsers
    /\ profiles = SeedProfiles
    /\ departments = CampusDepartments
    /\ programs = CampusPrograms
    /\ courses = CampusCourses
    /\ students = CampusStudents
    /\ staff = {}
    /\ enrollments = {}
    /\ attendance = {}
    /\ admissions = {}
    /\ notifications = {}
    /\ exams = {}
    /\ grades = {}
    /\ fees = {}
    /\ today = 1
    /\ last = [op |-> "none"]

\* instance.course.program.students.all()
ProgramStudentsOf(exam) ==
    {s \in students :
        \E c \in courses : c.id = exam.course /\ c.program = s.program}

\* the loop of the Exam receiver over a queryset, taken in the order of the
\* primary keys
RECURSIVE ExamNotifyEach(_, _)
ExamNotifyEach(N, S) ==
    IF S = {} THEN N
    ELSE LET s == CHOOSE x \in S : \A y \in S : x.id <= y.id
         IN  ExamNotifyEach(
                 NotificationCreate(N, ForStudent(s.id, "Exam", "New Exam Scheduled")),
                 S \ {s})

\* a slip: the receiver notifies every student on record
create_exam_notification_everyone(N, instance, created) ==
    IF created THEN ExamNotifyEach(N, students) ELSE N

\* post_save receiver of Exam
create_exam_notification(N, instance, created) ==
    IF created THEN ExamNotifyEach(N, ProgramStudentsOf(instance)) ELSE N

campusOther ==
    <<users, profiles, staff, courses, enrollments, attendance, admissions,
      grades, fees, programs, departments, today>>

ExamData == [course : 1..3, exam_type : {"Midterm"}, date : {1, 2}]

\* POST exams/
ExamCreate(req, data) ==
    LET row == [id |-> NewId(exams), course |-> data.course,
                exam_type |-> data.exam_type, date |-> data.date]
    IN  /\ Cardinality(exams) < MaxExams
        /\ UNCHANGED <<campusOther, students>>
        /\ IF check_permissions(req, "ExamViewSet") # "grant"
           THEN /\ last' = [op |-> "ExamCreate", status |-> "denied"]
                /\ UNCHANGED <<exams, notifications>>
           ELSE IF ~\E c \in courses : c.id = data.course
           THEN /\ last' = [op |-> "ExamCreate", status |-> "400"]
                /\ UNCHANGED <<exams, notifications>>
           ELSE /\ exams' = exams \cup {row}
                /\ notifications' = create_exam_notification(notifications, row, TRUE)
                /\ last' = [op |-> "ExamCreate", status |-> "201"]

\* PUT exams/<pk>/
ExamUpdate(req, pk, data) ==
    LET found == {e \in exams : e.id = pk}
        row == [TheRow(found) EXCEPT !.course = data.course,
                                     !.exam_type = data.exam_type,
                                     !.date = data.date]
    IN  /\ UNCHANGED <<campusOther, students>>
        /\ IF check_permissions(req, "ExamViewSet") # "grant"
           THEN /\ last' = [op |-> "ExamUpdate", status |-> "denied"]
                /\ UNCHANGED <<exams, notifications>>
           ELSE IF found = {}
           THEN /\ last' = [op |-> "ExamUpdate", status |-> "404"]
                /\ UNCHANGED <<exams, notifications>>
           ELSE IF ~\E c \in courses : c.id = data.course
           THEN /\ last' = [op |-> "ExamUpdate", status |-> "400"]
                /\ UNCHANGED <<exams, notifications>>
           ELSE /\ exams' = (exams \ found) \cup {row}
                /\ notifications' = create_exam_notification(notifications, row, FALSE)
                /\ last' = [op |-> "ExamUpdate", status |-> "200"]

\* the admin site (StudentAdmin) moves a student to another program
AdminStudentProgram(pk, program) ==
    LET found == {s \in students : s.id = pk}
    IN  /\ found # {}
        /\ \E p \in programs : p.id = program
        /\ students' = (students \ found)
                           \cup {[TheRow(found) EXCEPT !.program = program]}
        /\ last' = [op |-> "AdminStudentChange", status |-> "saved"]
        /\ UNCHANGED <<campusOther, exams, notifications>>

NextExams ==
    \/ \E req \in RecordRequesters, data \in ExamData : ExamCreate(req, data)
    \/ \E req \in RecordRequesters, pk \in 1..MaxExams, data \in ExamData :
           ExamUpdate(req, pk, data)
    \/ \E pk \in 1..2, program \in 1..2 : AdminStudentProgram(pk, program)

SpecExams == InitCampus /\ [][NextExams]_vars

\* the rows a step adds to a table
Added(before, after) == {r \in after : \A x \in before : x.id # r.id}

\* one step as seen by the exam notifications
ExamStep ==
    LET newN == Added(notifications, notifications')
    IN  IF last'.op = "ExamCreate" /\ last'.status = "201"
        THEN \A e \in Added(exams, exams') :
                 /\ notifications \subseteq notifications'
                 /\ Cardinality(newN) = Cardinality(ProgramStudentsOf(e))
                 /\ \A n \in newN : n.notif_type = "Exam" /\ ~n.read
                 /\ \A s \in students :
                        Cardinality({n \in newN : n.recipient_student = s.id}) =
                            IF s \in ProgramStudentsOf(e) THEN 1 ELSE 0
        ELSE last'.op = "ExamUpdate" => notifications' = notifications

\* C12: when an Exam is created, exactly one unread notification of type
\* Exam is created for each Student whose program is the program of the
\* exam's course, and for no other student, so the number of new
\* notifications is the number of students of that program; saving an
\* existing Exam creates no notification.
C12_ExamNotifiesProgram == [][ExamStep]_vars

\* an exam was created for a course whose program has one of the two
\* students, and that student alone was notified
C12_Witness ==
    /\ last.op = "ExamCreate"
    /\ last.status = "201"
    /\ Cardinality(exams) = 1
    /\ Cardinality({s \in students : \A e \in exams : s \in ProgramStudentsOf(e)}) = 1
    /\ Cardinality(notifications) = 1

(***************************************************************************)
(* 11. Fees (models.py, signals.py, views.py)                              *)
(*                                                                         *)
(* A Fee row: id, student, due_date, is_paid, payment_date (NoRow stands   *)
(* for no date).                                                           *)
(***************************************************************************)
MaxFees == 1

IsUnreadFee(n, sid) ==
    n.recipient_student = sid /\ n.notif_type = "Fee" /\ ~n.read

\* Notification.objects.filter(recipient_student=..., notif_type="Fee",
\* read=False).update(read=True, auto_resolved=True)
ResolveFeeNotifications(N, sid) ==
    {IF IsUnreadFee(n, sid)
     THEN [n EXCEPT !.read = TRUE, !.auto_resolved = TRUE] ELSE n : n \in N}

FeePaid(sid) ==
    [recipient_student |-> sid, recipient_staff |-> NoRow, notif_type |-> "Fee",
     title |-> "Fee Paid", read |-> TRUE, auto_resolved |-> TRUE]

\* a slip: the receiver leaves the earlier notifications as they are
create_fee_notification_keep(N, instance, created) ==
    IF created /\ ~instance.is_paid
    THEN NotificationCreate(N, ForStudent(instance.student, "Fee", "New Fee Assigned"))
    ELSE IF ~created /\ ~instance.is_paid /\ instance.due_date < today
    THEN NotificationCreate(N, ForStudent(instance.student, "Fee", "Fee Overdue"))
    ELSE IF ~created /\ instance.is_paid
    THEN NotificationCreate(N, FeePaid(instance.student))
    ELSE N

\* post_save receiver of Fee
create_fee_notification(N, instance, created) ==
    IF created /\ ~instance.is_paid
    THEN NotificationCreate(N, ForStudent(instance.student, "Fee", "New Fee Assigned"))
    ELSE IF ~created /\ ~instance.is_paid /\ instance.due_date < today
    THEN NotificationCreate(N, ForStudent(instance.student, "Fee", "Fee Overdue"))
    ELSE IF ~created /\ instance.is_paid
    THEN NotificationCreate(ResolveFeeNotifications(N, instance.student),
                            FeePaid(instance.student))
    ELSE N

\* a slip: the Fee receiver announces every new fee, paid or not
FeeSignalAnnounce(N, instance, created) ==
    IF created
    THEN NotificationCreate(N, ForStudent(instance.student, "Fee", "New Fee Assigned"))
    ELSE create_fee_notification(N, instance, created)

\* post_save.send(sender=Fee, ...)
FeeSignal(N, instance, created) == create_fee_notification(N, instance, created)

\* the record of a request on the fees: what was asked, the answer, and the
\* fee as it was saved
FeeResponse(op, status, row, created) ==
    [op |-> op, status |-> status, student |-> row.student,
     is_paid |-> row.is_paid, overdue |-> row.due_date < today,
     created |-> created]

feesOther ==
    <<users, profiles, students, staff, courses, enrollments, attendance,
      admissions, exams, grades, programs, departments, today>>

FeeData == [student : 1..3, due_date : {1, 2}, is_paid : BOOLEAN]

\* POST fees/
FeeCreate(req, data) ==
    LET row == [id |-> NewId(fees), student |-> data.student,
                due_date |-> data.due_date, is_paid |-> data.is_paid,
                payment_date |-> NoRow]
    IN  /\ Cardinality(notifications) < MaxNotifications
        /\ Cardinality(fees) < MaxFees
        /\ UNCHANGED feesOther
        /\ IF check_permissions(req, "FeeViewSet") # "grant"
           THEN /\ last' = [op |-> "FeeCreate", status |-> "denied"]
                /\ UNCHANGED <<fees, notifications>>
           ELSE IF ~\E s \in students : s.id = data.student
           THEN /\ last' = [op |-> "FeeCreate", status |-> "400"]
                /\ UNCHANGED <<fees, notifications>>
           ELSE /\ fees' = fees \cup {row}
                /\ notifications' = FeeSignal(notifications, row, TRUE)
                /\ last' = FeeResponse("FeeCreate", "201", row, TRUE)

\* PUT fees/<pk>/
FeeUpdate(req, pk, data) ==
    LET found == {f \in fees : f.id = pk}
        row == [TheRow(found) EXCEPT !.student = data.student,
                                     !.due_date = data.due_date,
                                     !.is_paid = data.is_paid]
    IN  /\ Cardinality(notifications) < MaxNotifications
        /\ UNCHANGED feesOther
        /\ IF check_permissions(req, "FeeViewSet") # "grant"
           THEN /\ last' = [op |-> "FeeUpdate", status |-> "denied"]
                /\ UNCHANGED <<fees, notifications>>
           ELSE IF found = {}
           THEN /\ last' = [op |-> "FeeUpdate", status |-> "404"]
                /\ UNCHANGED <<fees, notifications>>
           ELSE IF ~\E s \in students : s.id = data.student
           THEN /\ last' = [op |-> "FeeUpdate", status |-> "400"]
                /\ UNCHANGED <<fees, notifications>>
           ELSE /\ fees' = (fees \ found) \cup {row}
                /\ notifications' = FeeSignal(notifications, row, FALSE)
                /\ last' = FeeResponse("FeeUpdate", "200", row, FALSE)

\* POST fees/<pk>/mark_paid/
mark_paid(req, pk) ==
    LET found == {f \in fees : f.id = pk}
        row == [TheRow(found) EXCEPT !.is_paid = TRUE, !.payment_date = today]
    IN  /\ Cardinality(notifications) < MaxNotifications
        /\ UNCHANGED feesOther
        /\ IF check_permissions(req, "FeeViewSet") # "grant"
           THEN /\ last' = [op |-> "mark_paid", status |-> "denied"]
                /\ UNCHANGED <<fees, notifications>>
           ELSE IF found = {}
           THEN /\ last' = [op |-> "mark_paid", status |-> "404"]
                /\ UNCHANGED <<fees, notifications>>
           ELSE /\ fees' = (fees \ found) \cup {row}
                /\ notifications' = FeeSignal(notifications, row, FALSE)
                /\ last' = FeeResponse("mark_paid", "200", row, FALSE)

NextFees ==
    \/ Tick
    \/ \E req \in BulkRequesters, data \in FeeData : FeeCreate(req, data)
    \/ \E req \in BulkRequesters, pk \in 1..MaxFees, data \in FeeData :
           FeeUpdate(req, pk, data)
    \/ \E req \in BulkRequesters, pk \in 1..MaxFees : mark_paid(req, pk)

SpecFees == InitNotif /\ [][NextFees]_vars

FeeSaved(r) == r.op \in {"FeeCreate", "FeeUpdate", "mark_paid"} /\ r.status \in {"201", "200"}

\* one step that saves an existing fee as paid
FeePaidStep ==
    (FeeSaved(last') /\ ~last'.created /\ last'.is_paid) =>
        /\ \A n \in notifications' : ~IsUnreadFee(n, last'.student)
        /\ \A n \in notifications :
               IsUnreadFee(n, last'.student) =>
                   \E m \in notifications' :
                       m = [n EXCEPT !.read = TRUE, !.auto_resolved = TRUE]
        /\ \E n \in Added(notifications, notifications') :
               /\ Added(notifications, notifications') = {n}
               /\ n.recipient_student = last'.student
               /\ n.title = "Fee Paid"
               /\ n.read
               /\ n.auto_resolved

\* C13: immediately after an existing Fee is saved with is_paid true (for
\* example by mark_paid) no Notification of type Fee addressed to the fee's
\* student is unread: the ones that were unread are read and auto_resolved,
\* and the new 'Fee Paid' notification is created read and auto_resolved.
C13_PaidFeeResolves == [][FeePaidStep]_vars

\* a fee was marked paid and the notification of its assignment is resolved
C13_Witness ==
    /\ last.op = "mark_paid"
    /\ last.status = "200"
    /\ \E n \in notifications :
           /\ n.title = "New Fee Assigned"
           /\ n.recipient_student = last.student
           /\ n.read
           /\ n.auto_resolved

\* the one notification a save adds, unread and addressed to the student
OneUnread(title) ==
    /\ notifications \subseteq notifications'
    /\ \E n \in Added(notifications, notifications') :
           /\ notifications' = notifications \cup {n}
           /\ n.recipient_student = last'.student
           /\ n.notif_type = "Fee"
           /\ n.title = title
           /\ ~n.read

\* one step that saves a fee
FeeSaveStep ==
    FeeSaved(last') =>
        /\ Cardinality(Added(notifications, notifications')) <= 1
        /\ (last'.created /\ ~last'.is_paid) => OneUnread("New Fee Assigned")
        /\ (last'.created /\ last'.is_paid) => notifications' = notifications
        /\ (~last'.created /\ ~last'.is_paid /\ last'.overdue) =>
               OneUnread("Fee Overdue")
        /\ (~last'.created /\ ~last'.is_paid /\ ~last'.overdue) =>
               notifications' = notifications

\* C14: a save of a Fee creates at most one notification, chosen by case:
\* created and unpaid gives one unread 'New Fee Assigned'; created and
\* already paid gives none; an update that is unpaid with due_date before
\* today gives one unread 'Fee Overdue' (one more on every such save); an
\* update that is unpaid and not overdue gives none and changes no
\* notification.
C14_FeeSaveCases == [][FeeSaveStep]_vars

\* an unpaid fee was saved again after its due date, twice
C14_Witness ==
    /\ last.op = "FeeUpdate"
    /\ last.status = "200"
    /\ ~last.is_paid
    /\ last.overdue
    /\ Cardinality({n \in notifications : n.title = "Fee Overdue"}) = 2

(***************************************************************************)
(* 12. Later saves of an admission (signals.py, views.py)                  *)
(***************************************************************************)
AdmissionUpdateData == [student : 1..2, status : {"Approved"}]

\* PUT admissions/<pk>/
AdmissionUpdate(req, pk, data) ==
    LET found == {a \in admissions : a.id = pk}
        row == [TheRow(found) EXCEPT !.student = data.student,
                                     !.status = data.status]
    IN  /\ Cardinality(notifications) < MaxNotifications
        /\ UNCHANGED <<users, profiles, students, staff, courses, enrollments,
                       attendance, exams, grades, fees, programs, departments,
                       today>>
        /\ IF check_permissions(req, "AdmissionViewSet") # "grant"
           THEN /\ last' = [op |-> "AdmissionUpdate", status |-> "denied"]
                /\ UNCHANGED <<admissions, notifications>>
           ELSE IF found = {}
           THEN /\ last' = [op |-> "AdmissionUpdate", status |-> "404"]
                /\ UNCHANGED <<admissions, notifications>>
           ELSE IF ~\E s \in students : s.id = data.student
           THEN /\ last' = [op |-> "AdmissionUpdate", status |-> "400"]
                /\ UNCHANGED <<admissions, notifications>>
           ELSE IF ~AdmissionStudentUnique(admissions, row)
           THEN /\ last' = [op |-> "AdmissionUpdate", status |-> "IntegrityError"]
                /\ UNCHANGED <<admissions, notifications>>
           ELSE /\ admissions' = (admissions \ found) \cup {row}
                /\ notifications' =
                       create_admission_notification(notifications, row, FALSE)
                /\ last' = [op |-> "AdmissionUpdate", status |-> "200",
                            student |-> row.student]

NextAdmissions ==
    \/ Tick
    \/ \E req \in RecordRequesters, data \in AdmissionData : AdmissionCreate(req, data)
    \/ \E req \in RecordRequesters, pk \in 1..2, data \in AdmissionUpdateData :
           AdmissionUpdate(req, pk, data)

SpecAdmissions == InitNotif /\ [][NextAdmissions]_vars

AdmissionTypes == {"Admission", "Admission Update"}

\* one step that saves an admission
AdmissionStep ==
    (last'.op \in {"AdmissionCreate", "AdmissionUpdate"}
        /\ last'.status \in {"201", "200"}) =>
        \E n \in Added(notifications, notifications') :
            /\ notifications' = notifications \cup {n}
            /\ n.recipient_student = last'.student
            /\ n.recipient_staff = NoRow
            /\ n.notif_type = IF last'.op = "AdmissionCreate"
                              THEN "Admission" ELSE "Admission Update"

\* C15: every save of an Admission creates exactly one notification
\* addressed to the admission's student, of type 'Admission' when the row
\* is created and 'Admission Update' on every later save; so the
\* notifications of an admission are as many as its saves, the first of
\* them of type 'Admission'.
C15_AdmissionEverySave ==
    /\ [][AdmissionStep]_vars
    /\ [](/\ Cardinality({n \in notifications : n.notif_type = "Admission"})
               = Cardinality(admissions)
          /\ \A n \in notifications :
                 n.notif_type = "Admission Update" =>
                     \E m \in notifications :
                         m.notif_type = "Admission" /\ m.id < n.id)

\* an admission was created and then saved again: two notifications for
\* its student, one of each type
C15_Witness ==
    /\ last.op = "AdmissionUpdate"
    /\ last.status = "200"
    /\ \E s \in students :
           {n.notif_type : n \in {m \in notifications : m.recipient_student = s.id}}
               = AdmissionTypes

(***************************************************************************)
(* 13. Grades (models.py, serializers.py, signals.py, views.py)            *)
(*                                                                         *)
(* A Grade row: id, student, exam, obtained_marks.                         *)
(***************************************************************************)
\* a slip: the receiver acts on every save
create_grade_notification_every(N, instance, created) ==
    NotificationCreate(N, ForStudent(instance.student, "Grade", "Exam Results"))

\* post_save receiver of Grade (of the title, which also names the type of
\* the exam, the fixed part is kept)
create_grade_notification(N, instance, created) ==
    IF created
    THEN NotificationCreate(N, ForStudent(instance.student, "Grade", "Exam Results"))
    ELSE N

\* GradeSerializer: student_id and exam_id name stored rows, and
\* validate_obtained_marks
GradeSerializerValid(data) ==
    /\ \E s \in students : s.id = data.student
    /\ \E e \in exams : e.id = data.exam
    /\ data.obtained_marks >= 0

GradeData == [student : 1..2, exam : 1..2, obtained_marks : {-1, 50}]

gradesOther ==
    <<users, profiles, students, staff, courses, enrollments, attendance,
      admissions, exams, fees, programs, departments, today>>

\* POST grades/
GradeCreate(req, data) ==
    LET row == [id |-> NewId(grades), student |-> data.student,
                exam |-> data.exam, obtained_marks |-> data.obtained_marks]
    IN  /\ Cardinality(notifications) < MaxNotifications
        /\ UNCHANGED gradesOther
        /\ IF check_permissions(req, "GradeViewSet") # "grant"
           THEN /\ last' = [op |-> "GradeCreate", status |-> "denied"]
                /\ UNCHANGED <<grades, notifications>>
           ELSE IF ~GradeSerializerValid(data)
           THEN /\ last' = [op |-> "GradeCreate", status |-> "400"]
                /\ UNCHANGED <<grades, notifications>>
           ELSE /\ grades' = grades \cup {row}
                /\ notifications' = create_grade_notification(notifications, row, TRUE)
                /\ last' = [op |-> "GradeCreate", status |-> "201"]

\* PUT grades/<pk>/
GradeUpdate(req, pk, data) ==
    LET found == {g \in grades : g.id = pk}
        row == [TheRow(found) EXCEPT !.student = data.student, !.exam = data.exam,
                                     !.obtained_marks = data.obtained_marks]
    IN  /\ Cardinality(notifications) < MaxNotifications
        /\ UNCHANGED gradesOther
        /\ IF check_permissions(req, "GradeViewSet") # "grant"
           THEN /\ last' = [op |-> "GradeUpdate", status |-> "denied"]
                /\ UNCHANGED <<grades, notifications>>
           ELSE IF found = {}
           THEN /\ last' = [op |-> "GradeUpdate", status |-> "404"]
                /\ UNCHANGED <<grades, notifications>>
           ELSE IF ~GradeSerializerValid(data)
           THEN /\ last' = [op |-> "GradeUpdate", status |-> "400"]
                /\ UNCHANGED <<grades, notifications>>
           ELSE /\ grades' = (grades \ found) \cup {row}
                /\ notifications' = create_grade_notification(notifications, row, FALSE)
                /\ last' = [op |-> "GradeUpdate", status |-> "200"]

SeedExams == {[id |-> 1, course |-> 1, exam_type |-> "Midterm", date |-> 1]}

InitGrades ==
    /\ users = SeedUsers
    /\ profiles = SeedProfiles
    /\ students = SeedStudents
    /\ courses = SeedCourses
    /\ exams = SeedExams
    /\ staff = {}
    /\ enrollments = {}
    /\ attendance = {}
    /\ admissions = {}
    /\ notifications = {}
    /\ grades = {}
    /\ fees = {}
    /\ programs = {}
    /\ departments = {}
    /\ today = 1
    /\ last = [op |-> "none"]

HookAttendanceData == {d \in AttendanceData : d.date = 1}

NextGrades ==
    \/ \E req \in BulkRequesters, data \in GradeData : GradeCreate(req, data)
    \/ \E req \in BulkRequesters, pk \in RowIds, data \in GradeData :
           GradeUpdate(req, pk, data)
    \/ \E pk \in RowIds, data \in HookEnrollmentData : AdminEnrollmentSave(pk, data)
    \/ \E pk \in RowIds, data \in HookAttendanceData : AdminAttendanceSave(pk, data)

SpecGrades == InitGrades /\ [][NextGrades]_vars

\* one step as seen by the notifications of one type: each student gets as
\* many new ones, unread, as rows of the table were created for the student
CreatedOnly(type, before, after) ==
    LET newN == {n \in Added(notifications, notifications') : n.notif_type = type}
    IN  /\ \A s \in students :
               Cardinality({n \in newN : n.recipient_student = s.id}) =
                   Cardinality({r \in Added(before, after) : r.student = s.id})
        /\ \A n \in newN :
               /\ ~n.read
               /\ n.recipient_staff = NoRow
               /\ \E s \in students : n.recipient_student = s.id

RecordStep ==
    /\ notifications \subseteq notifications'
    /\ CreatedOnly("Enrollment", enrollments, enrollments')
    /\ CreatedOnly("Attendance", attendance, attendance')
    /\ CreatedOnly("Grade", grades, grades')

\* C16: for Enrollment, Attendance and Grade, creating a row creates
\* exactly one unread notification addressed to the row's student and
\* saving an existing row creates none; hence the notifications of each of
\* these types for a student never outnumber the rows of that kind ever
\* created for the student.
C16_CreatedOnlyHooks == [][RecordStep]_vars

\* a grade was created and then saved again for the other student: the one
\* Grade notification is the first student's
C16_Witness ==
    /\ last.op = "GradeUpdate"
    /\ last.status = "200"
    /\ \E g \in grades, n \in notifications :
           /\ n.notif_type = "Grade"
           /\ n.recipient_student # g.student
           /\ Cardinality(notifications) = 1

(***************************************************************************)
(* 14. Staff (models.py, serializers.py, signals.py, views.py, admin.py)   *)
(*                                                                         *)
(* Here a Staff row is: id, user, is_active, department (NoRow for none).  *)
(***************************************************************************)
ForStaff(sid, title) ==
    [recipient_student |-> NoRow, recipient_staff |-> sid, notif_type |-> "Staff",
     title |-> title, read |-> FALSE, auto_resolved |-> FALSE]

\* a slip: the receiver welcomes and is silent afterwards
create_staff_notification_created(N, instance, created) ==
    IF created THEN NotificationCreate(N, ForStaff(instance.id, "Welcome to Staff"))
    ELSE N

\* post_save receiver of Staff
create_staff_notification(N, instance, created) ==
    IF created
    THEN NotificationCreate(N, ForStaff(instance.id, "Welcome to Staff"))
    ELSE NotificationCreate(N, ForStaff(instance.id, "Staff Record Updated"))

\* Staff.user: one-to-one and not null
StaffConstraintsOk(table, row) ==
    /\ row.user # NoRow
    /\ \A r \in table : r.id # row.id => r.user # row.user

staffOther ==
    <<users, profiles, students, courses, enrollments, attendance, admissions,
      exams, grades, fees, programs, departments, today>>

StaffResponse(op, status, pk) == [op |-> op, status |-> status, pk |-> pk]

StaffData == [department : 1..2, is_active : BOOLEAN]

\* StaffSerializer: department_id names a stored department
StaffSerializerValid(data) == \E d \in departments : d.id = data.department

\* the admin site (StaffAdmin) adds a staff row for a user
AdminStaffAdd(uid, department) ==
    LET row == [id |-> NewId(staff), user |-> uid, is_active |-> TRUE,
                department |-> department]
    IN  /\ Cardinality(notifications) < MaxNotifications
        /\ uid \in DOMAIN users
        /\ UNCHANGED staffOther
        /\ IF StaffConstraintsOk(staff, row)
           THEN /\ staff' = staff \cup {row}
                /\ notifications' = create_staff_notification(notifications, row, TRUE)
                /\ last' = StaffResponse("AdminStaffAdd", "saved", row.id)
           ELSE /\ last' = StaffResponse("AdminStaffAdd", "form error", NoRow)
                /\ UNCHANGED <<staff, notifications>>

\* POST staff/: StaffSerializer has user read-only, so the row to insert
\* has no user
StaffCreate(req, data) ==
    LET row == [id |-> NewId(staff), user |-> NoRow, is_active |-> data.is_active,
                department |-> data.department]
    IN  /\ Cardinality(notifications) < MaxNotifications
        /\ UNCHANGED staffOther
        /\ IF check_permissions(req, "StaffViewSet") # "grant"
           THEN /\ last' = StaffResponse("StaffCreate", "denied", NoRow)
                /\ UNCHANGED <<staff, notifications>>
           ELSE IF ~StaffSerializerValid(data)
           THEN /\ last' = StaffResponse("StaffCreate", "400", NoRow)
                /\ UNCHANGED <<staff, notifications>>
           ELSE IF ~StaffConstraintsOk(staff, row)
           THEN /\ last' = StaffResponse("StaffCreate", "IntegrityError", NoRow)
                /\ UNCHANGED <<staff, notifications>>
           ELSE /\ staff' = staff \cup {row}
                /\ notifications' = create_staff_notification(notifications, row, TRUE)
                /\ last' = StaffResponse("StaffCreate", "201", row.id)

\* PUT staff/<pk>/
StaffUpdate(req, pk, data) ==
    LET found == {r \in staff : r.id = pk}
        row == [TheRow(found) EXCEPT !.department = data.department,
                                     !.is_active = data.is_active]
    IN  /\ Cardinality(notifications) < MaxNotifications
        /\ UNCHANGED staffOther
        /\ IF check_permissions(req, "StaffViewSet") # "grant"
           THEN /\ last' = StaffResponse("StaffUpdate", "denied", pk)
                /\ UNCHANGED <<staff, notifications>>
           ELSE IF found = {}
           THEN /\ last' = StaffResponse("StaffUpdate", "404", pk)
                /\ UNCHANGED <<staff, notifications>>
           ELSE IF ~StaffSerializerValid(data)
           THEN /\ last' = StaffResponse("StaffUpdate", "400", pk)
                /\ UNCHANGED <<staff, notifications>>
           ELSE /\ staff' = (staff \ found) \cup {row}
                /\ notifications' = create_staff_notification(notifications, row, FALSE)
                /\ last' = StaffResponse("StaffUpdate", "200", pk)

\* POST staff/<pk>/deactivate/
StaffDeactivate(req, pk) ==
    LET found == {r \in staff : r.id = pk}
        row == [TheRow(found) EXCEPT !.is_active = FALSE]
    IN  /\ Cardinality(notifications) < MaxNotifications
        /\ UNCHANGED staffOther
        /\ IF check_permissions(req, "StaffViewSet") # "grant"
           THEN /\ last' = StaffResponse("StaffDeactivate", "denied", pk)
                /\ UNCHANGED <<staff, notifications>>
           ELSE IF found = {}
           THEN /\ last' = StaffResponse("StaffDeactivate", "404", pk)
                /\ UNCHANGED <<staff, notifications>>
           ELSE /\ staff' = (staff \ found) \cup {row}
                /\ notifications' = create_staff_notification(notifications, row, FALSE)
                /\ last' = StaffResponse("StaffDeactivate", "200", pk)

\* a requester of role Admin and one of role Staff
StaffRequesters == {1, 2}

NextStaff ==
    \/ \E uid \in DOMAIN SeedUsers, d \in {NoRow, 1} : AdminStaffAdd(uid, d)
    \/ \E req \in StaffRequesters, data \in StaffData : StaffCreate(req, data)
    \/ \E req \in StaffRequesters, pk \in RowIds, data \in StaffData :
           StaffUpdate(req, pk, data)
    \/ \E req \in StaffRequesters, pk \in RowIds : StaffDeactivate(req, pk)

SpecStaff == InitCampus /\ [][NextStaff]_vars

StaffSaved(r) ==
    \/ r.op = "AdminStaffAdd" /\ r.status = "saved"
    \/ r.op = "StaffCreate" /\ r.status = "201"
    \/ r.op \in {"StaffUpdate", "StaffDeactivate"} /\ r.status = "200"

\* one step of the staff operations
StaffStep ==
    /\ StaffSaved(last') =>
           \E n \in Added(notifications, notifications') :
               /\ notifications' = notifications \cup {n}
               /\ n.recipient_staff = last'.pk
               /\ n.recipient_student = NoRow
               /\ n.title = IF last'.op \in {"AdminStaffAdd", "StaffCreate"}
                            THEN "Welcome to Staff" ELSE "Staff Record Updated"
    /\ ~StaffSaved(last') => notifications' = notifications
    /\ (last'.op = "StaffDeactivate" /\ last'.status = "200") =>
           \E r \in staff :
               /\ r.id = last'.pk
               /\ staff' = (staff \ {r}) \cup {[r EXCEPT !.is_active = FALSE]}

\* C17: every save of a Staff row creates exactly one notification
\* addressed to that staff member (recipient_staff set, recipient_student
\* empty): 'Welcome to Staff' on creation and 'Staff Record Updated' on any
\* later save, the save of the deactivate action included, which sets
\* is_active to false and changes no other field of the row.
C17_StaffEverySave == [][StaffStep]_vars

\* a staff member was deactivated and told of the update
C17_Witness ==
    /\ last.op = "StaffDeactivate"
    /\ last.status = "200"
    /\ \E r \in staff : r.id = last.pk /\ ~r.is_active /\ r.department # NoRow
    /\ \E n \in notifications :
           n.recipient_staff = last.pk /\ n.title = "Staff Record Updated"

(***************************************************************************)
(* 15. Bulk update of students and courses (views.py)                      *)
(*                                                                         *)
(* The "id" of a list item is left out, a number, or a text that is not a  *)
(* number.                                                                 *)
(***************************************************************************)
IdParams ==
    {[kind |-> "absent", value |-> 0], [kind |-> "text", value |-> 0]}
        \cup {[kind |-> "number", value |-> n] : n \in 1..3}

CourseItems == [id : IdParams, semester : {2, 9}]

StudentItems == [id : IdParams, dob : {1, 2}, is_active : {FALSE}]

\* what the loop of a bulk update has done: ok = FALSE when an exception
\* left the handler, the table as written so far, the rows answered
Looped(ok, table, data) == [ok |-> ok, table |-> table, data |-> data]

\* the loop of CourseBulkAPIView.put from item i on.  Course.objects.get
\* raises ValueError for an id that is not a number, and only DoesNotExist
\* is caught
RECURSIVE CourseUpdateEach(_, _, _, _)
CourseUpdateEach(table, items, i, updated) ==
    IF i > Len(items) THEN Looped(TRUE, table, updated)
    ELSE LET item == items[i]
             found == {c \in table : c.id = item.id.value}
             row == [TheRow(found) EXCEPT !.semester = item.semester]
         IN  IF item.id.kind = "absent"
             THEN CourseUpdateEach(table, items, i + 1, updated)
             ELSE IF item.id.kind = "text"
             THEN Looped(FALSE, table, updated)
             ELSE IF found = {}
             THEN CourseUpdateEach(table, items, i + 1, updated)
             ELSE IF ~CourseSerializerValid(table, row.id, row)
             THEN CourseUpdateEach(table, items, i + 1, updated)
             ELSE LET r == CourseStore(table, row)
                  IN  IF r.ok
                      THEN CourseUpdateEach(r.table, items, i + 1,
                                            Append(updated, row))
                      ELSE Looped(FALSE, r.table, updated)

\* the loop of StudentBulkAPIView.put from item i on
RECURSIVE StudentUpdateEach(_, _, _, _)
StudentUpdateEach(table, items, i, updated) ==
    IF i > Len(items) THEN Looped(TRUE, table, updated)
    ELSE LET item == items[i]
             found == {s \in table : s.id = item.id.value}
             row == [TheRow(found) EXCEPT !.is_active = item.is_active]
         IN  IF item.id.kind = "absent"
             THEN StudentUpdateEach(table, items, i + 1, updated)
             ELSE IF item.id.kind = "text"
             THEN Looped(FALSE, table, updated)
             ELSE IF found = {}
             THEN StudentUpdateEach(table, items, i + 1, updated)
             ELSE IF ~StudentSerializerValid(item)
             THEN StudentUpdateEach(table, items, i + 1, updated)
             ELSE LET r == StudentStore(table, row)
                  IN  IF r.ok
                      THEN StudentUpdateEach(r.table, items, i + 1,
                                             Append(updated, row))
                      ELSE Looped(FALSE, r.table, updated)

BulkPutResponse(op, status, items, before, data) ==
    [op |-> op, status |-> status, items |-> items, before |-> before,
     data |-> data]

\* CourseBulkAPIView.put
CourseBulkPut(req, items) ==
    IF check_permissions(req, "CourseBulkAPIView") # "grant"
    THEN /\ last' = BulkPutResponse("CourseBulkAPIView.put", "denied", items,
                                    courses, << >>)
         /\ UNCHANGED <<users, profiles, tablesOther>>
    ELSE LET r == CourseUpdateEach(courses, items, 1, << >>)
         IN  /\ courses' = atomic(courses, r)
             /\ last' = BulkPutResponse("CourseBulkAPIView.put",
                                        IF r.ok THEN "200" ELSE "500", items,
                                        courses, IF r.ok THEN r.data ELSE << >>)
             /\ UNCHANGED <<users, profiles, students, staff, enrollments,
                            attendance, admissions, notifications, exams,
                            grades, fees, programs, departments, today>>

\* StudentBulkAPIView.put
StudentBulkPut(req, items) ==
    IF check_permissions(req, "StudentBulkAPIView") # "grant"
    THEN /\ last' = BulkPutResponse("StudentBulkAPIView.put", "denied", items,
                                    students, << >>)
         /\ UNCHANGED <<users, profiles, tablesOther>>
    ELSE LET r == StudentUpdateEach(students, items, 1, << >>)
         IN  /\ students' = atomic(students, r)
             /\ last' = BulkPutResponse("StudentBulkAPIView.put",
                                        IF r.ok THEN "200" ELSE "500", items,
                                        students, IF r.ok THEN r.data ELSE << >>)
             /\ UNCHANGED <<users, profiles, staff, courses, enrollments,
                            attendance, admissions, notifications, exams,
                            grades, fees, programs, departments, today>>

BulkCourses ==
    {[id |-> 1, code |-> "CS101", semester |-> 1],
     [id |-> 2, code |-> "CS102", semester |-> 1]}

InitBulkPut ==
    /\ users = SeedUsers
    /\ profiles = SeedProfiles
    /\ students = SeedStudents
    /\ courses = BulkCourses
    /\ staff = {}
    /\ enrollments = {}
    /\ attendance = {}
    /\ admissions = {}
    /\ notifications = {}
    /\ exams = {}
    /\ grades = {}
    /\ fees = {}
    /\ programs = {}
    /\ departments = {}
    /\ today = 1
    /\ last = [op |-> "none"]

NextBulkPut ==
    \/ \E req \in BulkRequesters, items \in ItemLists(CourseItems) :
           CourseBulkPut(req, items)
    \/ \E req \in BulkRequesters, items \in ItemLists(StudentItems) :
           StudentBulkPut(req, items)

SpecBulkPut == InitBulkPut /\ [][NextBulkPut]_vars

\* the items of a list that name a row of the table by a number and carry
\* valid data
AppliedCourseItems(items, table) ==
    {i \in 1..Len(items) :
        /\ items[i].id.kind = "number"
        /\ \E c \in table : c.id = items[i].id.value
        /\ items[i].semester \in SEMESTERS}

AppliedStudentItems(items, table) ==
    {i \in 1..Len(items) :
        /\ items[i].id.kind = "number"
        /\ \E s \in table : s.id = items[i].id.value
        /\ items[i].dob <= today}

\* C18: a bulk update of students or courses applies each list item
\* independently: an item with no id, with an id that matches no row, or
\* with data that fails validation is skipped and its row (if any) is left
\* unchanged, while every other item is applied; the request answers 200
\* and returns exactly the rows that were updated, and a skipped item does
\* not undo the items applied before it.
C18_BulkUpdateEachItem ==
    /\ (last.op = "CourseBulkAPIView.put" /\ last.status # "denied") =>
           LET applied == AppliedCourseItems(last.items, last.before)
           IN  /\ last.status = "200"
               /\ Len(last.data) = Cardinality(applied)
               /\ \A c \in last.before :
                      (\A i \in applied : last.items[i].id.value # c.id) =>
                          c \in courses
               /\ \A i \in applied :
                      (\A j \in applied :
                           last.items[j].id.value = last.items[i].id.value
                               => j <= i) =>
                          \E c \in courses :
                              /\ c.id = last.items[i].id.value
                              /\ c.semester = last.items[i].semester
    /\ (last.op = "StudentBulkAPIView.put" /\ last.status # "denied") =>
           LET applied == AppliedStudentItems(last.items, last.before)
           IN  /\ last.status = "200"
               /\ Len(last.data) = Cardinality(applied)
               /\ \A s \in last.before :
                      (\A i \in applied : last.items[i].id.value # s.id) =>
                          s \in students
               /\ \A i \in applied :
                      \E s \in students :
                          /\ s.id = last.items[i].id.value
                          /\ s.is_active = last.items[i].is_active

(***************************************************************************)
(* 16. The dashboard's answers to malformed requests (views.py)            *)
(***************************************************************************)
KnownFilters == {"today", "week", "month", "custom"}

NoRows ==
    [users |-> {}, departments |-> {}, programs |-> {}, courses |-> {},
     students |-> {}, staff |-> {}, exams |-> {}]

\* a slip: every foreign key behaves as DO_NOTHING
CollectOnlySeed(seed) == seed

\* the primary keys a delete of the seed rows collects, by table, along the
\* CASCADE foreign keys between User, Department, Program, Course, Student,
\* Staff and Exam
Collect(seed) ==
    LET prog == seed.programs
                    \cup {p.id : p \in {x \in programs : x.department \in seed.departments}}
        crs == seed.courses
                   \cup {c.id : c \in {x \in courses : x.program \in prog}}
        stud == seed.students
                    \cup {s.id : s \in {x \in students :
                                           x.program \in prog \/ x.user \in seed.users}}
        stf == seed.staff
                   \cup {t.id : t \in {x \in staff : x.user \in seed.users}}
        exm == seed.exams
                   \cup {e.id : e \in {x \in exams : x.course \in crs}}
    IN  [users |-> seed.users, departments |-> seed.departments,
         programs |-> prog, courses |-> crs, students |-> stud, staff |-> stf,
         exams |-> exm]

\* the database after the collected rows are deleted
Delete(dead) ==
    /\ users' = [u \in (DOMAIN users) \ dead.users |-> users[u]]
    /\ profiles' = {p \in profiles : p.user \notin dead.users}
    /\ departments' =
           {IF d.hod \in dead.staff THEN [d EXCEPT !.hod = NoRow] ELSE d :
                d \in {x \in departments : x.id \notin dead.departments}}
    /\ programs' = {p \in programs : p.id \notin dead.programs}
    /\ courses' = {c \in courses : c.id \notin dead.courses}
    /\ students' = {s \in students : s.id \notin dead.students}
    /\ staff' =
           {IF t.department \in dead.departments
            THEN [t EXCEPT !.department = NoRow] ELSE t :
                t \in {x \in staff : x.id \notin dead.staff}}
    /\ admissions' = {a \in admissions : a.student \notin dead.students
                                             /\ a.program \notin dead.programs}
    /\ enrollments' = {e \in enrollments : e.student \notin dead.students
                                               /\ e.course \notin dead.courses}
    /\ attendance' = {a \in attendance : a.student \notin dead.students
                                             /\ a.course \notin dead.courses}
    /\ exams' = {e \in exams : e.id \notin dead.exams}
    /\ grades' = {g \in grades : g.student \notin dead.students
                                     /\ g.exam \notin dead.exams}
    /\ fees' = {f \in fees : f.student \notin dead.students}
    /\ notifications' = {n \in notifications :
                             /\ n.recipient_student \notin dead.students
                             /\ n.recipient_staff \notin dead.staff}

DestroyResponse(op, status, pk) == [op |-> op, status |-> status, pk |-> pk]

\* ModelViewSet.destroy of a view over a table: DELETE <prefix>/<pk>/
Destroy(op, view, req, table, pk, seed) ==
    IF check_permissions(req, view) # "grant"
    THEN /\ last' = DestroyResponse(op, "denied", pk)
         /\ UNCHANGED <<users, profiles, tablesOther>>
    ELSE IF ~\E r \in table : r.id = pk
    THEN /\ last' = DestroyResponse(op, "404", pk)
         /\ UNCHANGED <<users, profiles, tablesOther>>
    ELSE /\ Delete(Collect(seed))
         /\ last' = DestroyResponse(op, "204", pk)
         /\ UNCHANGED today

DepartmentDestroy(req, pk) ==
    Destroy("DepartmentDestroy", "DepartmentViewSet", req, departments, pk,
            [NoRows EXCEPT !.departments = {pk}])

ProgramDestroy(req, pk) ==
    Destroy("ProgramDestroy", "ProgramViewSet", req, programs, pk,
            [NoRows EXCEPT !.programs = {pk}])

CourseDestroy(req, pk) ==
    Destroy("CourseDestroy", "CourseViewSet", req, courses, pk,
            [NoRows EXCEPT !.courses = {pk}])

StaffDestroy(req, pk) ==
    Destroy("StaffDestroy", "StaffViewSet", req, staff, pk,
            [NoRows EXCEPT !.staff = {pk}])

ExamDestroy(req, pk) ==
    Destroy("ExamDestroy", "ExamViewSet", req, exams, pk,
            [NoRows EXCEPT !.exams = {pk}])

\* the admin site deletes a user
AdminUserDelete(uid) ==
    /\ uid \in DOMAIN users
    /\ Delete(Collect([NoRows EXCEPT !.users = {uid}]))
    /\ last' = DestroyResponse("AdminUserDelete", "deleted", uid)
    /\ UNCHANGED today

InitCascade ==
    /\ users = SeedUsers
    /\ profiles = SeedProfiles
    /\ departments = {[id |-> 1, hod |-> 1], [id |-> 2, hod |-> NoRow]}
    /\ programs = {[id |-> 1, department |-> 1], [id |-> 2, department |-> 2]}
    /\ courses = CampusCourses
    /\ students = {[id |-> 1, user |-> 3, is_active |-> TRUE, program |-> 1],
                   [id |-> 2, user |-> 4, is_active |-> TRUE, program |-> 2]}
    /\ staff = {[id |-> 1, user |-> 2, is_active |-> TRUE, department |-> 1],
                [id |-> 2, user |-> 1, is_active |-> TRUE, department |-> 2]}
    /\ admissions = {[id |-> 1, student |-> 1, program |-> 1,
                      status |-> "Pending", admission_date |-> 1]}
    /\ enrollments = {[id |-> 1, student |-> 2, course |-> 1, semester |-> 1,
                       year |-> 2025, date_enrolled |-> 1]}
    /\ attendance = {[id |-> 1, student |-> 1, course |-> 2, date |-> 1]}
    /\ exams = {[id |-> 1, course |-> 1, exam_type |-> "Midterm", date |-> 1]}
    /\ grades = {[id |-> 1, student |-> 2, exam |-> 1, obtained_marks |-> 50]}
    /\ fees = {[id |-> 1, student |-> 1, due_date |-> 1, is_paid |-> FALSE,
                payment_date |-> NoRow]}
    /\ notifications =
           {[id |-> 1, recipient_student |-> 1, recipient_staff |-> NoRow,
             notif_type |-> "Fee", title |-> "New Fee Assigned", read |-> FALSE,
             auto_resolved |-> FALSE, created_at |-> 1],
            [id |-> 2, recipient_student |-> NoRow, recipient_staff |-> 1,
             notif_type |-> "Staff", title |-> "Welcome to Staff", read |-> FALSE,
             auto_resolved |-> FALSE, created_at |-> 1]}
    /\ today = 1
    /\ last = [op |-> "none"]

\* a requester of role Admin and one of role Student
CascadeRequesters == {1, 3}

NextCascade ==
    \/ \E req \in CascadeRequesters, pk \in 1..2 : DepartmentDestroy(req, pk)
    \/ \E req \in CascadeRequesters, pk \in 1..2 : ProgramDestroy(req, pk)
    \/ \E req \in CascadeRequesters, pk \in 1..2 : CourseDestroy(req, pk)
    \/ \E req \in CascadeRequesters, pk \in 1..2 : StudentDestroy(req, pk)
    \/ \E req \in CascadeRequesters, pk \in 1..2 : StaffDestroy(req, pk)
    \/ \E req \in CascadeRequesters, pk \in 1..2 : ExamDestroy(req, pk)
    \/ \E req \in CascadeRequesters, pk \in 1..2 : EnrollmentDestroy(req, pk)
    \/ \E req \in CascadeRequesters, pk \in 1..2 : NotificationDestroy(req, pk)
    \/ \E uid \in 2..3 : AdminUserDelete(uid)

SpecCascade == InitCascade /\ [][NextCascade]_vars

Ids(table) == {r.id : r \in table}

\* every foreign key names a stored row, or no row where it may be empty
ReferentialIntegrity ==
    /\ \A p \in profiles : p.user \in DOMAIN users
    /\ \A d \in departments : d.hod \in Ids(staff) \cup {NoRow}
    /\ \A p \in programs : p.department \in Ids(departments)
    /\ \A c \in courses : c.program \in Ids(programs)
    /\ \A s \in students : s.program \in Ids(programs) /\ s.user \in DOMAIN users
    /\ \A t \in staff : /\ t.department \in Ids(departments) \cup {NoRow}
                        /\ t.user \in DOMAIN users
    /\ \A a \in admissions : a.student \in Ids(students) /\ a.program \in Ids(programs)
    /\ \A e \in enrollments : e.student \in Ids(students) /\ e.course \in Ids(courses)
    /\ \A a \in attendance : a.student \in Ids(students) /\ a.course \in Ids(courses)
    /\ \A e \in exams : e.course \in Ids(courses)
    /\ \A g \in grades : g.student \in Ids(students) /\ g.exam \in Ids(exams)
    /\ \A f \in fees : f.student \in Ids(students)
    /\ \A n \in notifications :
           /\ n.recipient_student \in Ids(students) \cup {NoRow}
           /\ n.recipient_staff \in Ids(staff) \cup {NoRow}

\* one step that deletes a student, a department or a staff row
CascadeStep ==
    /\ (last'.op = "destroy" /\ last'.status = "ok") =>
           /\ last'.pk \notin Ids(students')
           /\ \A a \in admissions' : a.student # last'.pk
           /\ \A e \in enrollments' : e.student # last'.pk
           /\ \A a \in attendance' : a.student # last'.pk
           /\ \A g \in grades' : g.student # last'.pk
           /\ \A f \in fees' : f.student # last'.pk
           /\ \A n \in notifications' : n.recipient_student # last'.pk
    /\ (last'.op = "DepartmentDestroy" /\ last'.status = "204") =>
           /\ last'.pk \notin Ids(departments')
           /\ \A p \in programs :
                  p.department = last'.pk =>
                      /\ p.id \notin Ids(programs')
                      /\ \A c \in courses' : c.program # p.id
                      /\ \A s \in students' : s.program # p.id
           /\ Ids(staff') = Ids(staff)
           /\ \A t \in staff :
                  IF t.department = last'.pk
                  THEN [t EXCEPT !.department = NoRow] \in staff'
                  ELSE t \in staff'
    /\ (last'.op = "StaffDestroy" /\ last'.status = "204") =>
           /\ last'.pk \notin Ids(staff')
           /\ Ids(departments') = Ids(departments)
           /\ \A d \in departments :
                  IF d.hod = last'.pk
                  THEN [d EXCEPT !.hod = NoRow] \in departments'
                  ELSE d \in departments'

\* C20: referential integrity holds after any sequence of deletes:
\* deleting a Student also removes the student's admission, enrollments,
\* attendance rows, grades, fees and notifications; deleting a Department
\* removes its programs and, through them, their courses and students,
\* while staff of that department are kept with department emptied;
\* deleting a Staff row empties the hod of any department it headed.  In no
\* reachable state does a row reference a row that no longer exists.
C20_ReferentialIntegrity == []ReferentialIntegrity /\ [][CascadeStep]_vars

\* a department was deleted: its staff stayed, without a department, and a
\* student of its program went
C20_Witness ==
    /\ last.op = "DepartmentDestroy"
    /\ last.status = "204"
    /\ \E t \in staff : t.department = NoRow
    /\ Cardinality(students) = 1
    /\ Cardinality(staff) = 2

(***************************************************************************)
(* 18. The seven receivers together (signals.py)                           *)
(***************************************************************************)
StudentHookTypes ==
    {"Admission", "Admission Update", "Enrollment", "Fee", "Exam", "Attendance",
     "Grade"}

\* the requests that fire the receivers: one valid form of each
HookFeeData == {d \in FeeData : d.student = 1 /\ d.due_date = 1}

HookExamData == {d \in ExamData : d.course = 1 /\ d.date = 1}

HookGradeData == {d \in GradeData : d.student = 2 /\ d.obtained_marks = 50}

NextHooks ==
    \/ \E data \in AdmissionUpdateData : AdmissionCreate(2, data)
    \/ \E data \in AdmissionUpdateData : AdmissionUpdate(2, 1, data)
    \/ \E data \in HookEnrollmentData : AdminEnrollmentSave(1, data)
    \/ \E data \in HookAttendanceData : AdminAttendanceSave(1, data)
    \/ \E data \in HookFeeData : FeeCreate(3, data)
    \/ \E pk \in 1..MaxFees : mark_paid(3, pk)
    \/ \E data \in HookExamData : Cardinality(notifications) < MaxNotifications
                                      /\ ExamCreate(2, data)
    \/ \E data \in HookGradeData : GradeCreate(3, data)
    \/ \E uid \in StaffRequesters : AdminStaffAdd(uid, 1)
    \/ StaffDeactivate(1, 1)

SpecHooks == InitCampus /\ [][NextHooks]_vars

====
